---- MODULE Spec2Model ----
(***************************************************************************)
(* Model of the news ingestion core of the Facebook trucking-news bot:     *)
(* NewsFetcher (news_fetcher.py), the manual fetch_news route and the      *)
(* source toggle route (app.py) and the tables of models.py.               *)
(*                                                                         *)
(* Time is counted in whole hours.  Texts (source names, log messages,     *)
(* exception texts, titles) are strings, and substring tests are computed  *)
(* character by character as Python's `in` and SQL's LIKE compute them.    *)
(***************************************************************************)
EXTENDS Bags, FiniteSets, Integers, Naturals, Sequences, TLC

(***************************************************************************)
(* Bounds of the model                                                     *)
(***************************************************************************)
\* number of time advances in a behaviour
MaxTicks == 1
\* number of Orchestrator runs (scheduled or manual) started in a behaviour
MaxRuns == 2
\* number of manual toggles in a behaviour
MaxToggles == 1
\* number of stand-alone sweeps in a behaviour
MaxSweeps == 1
\* number of earlier exhausted runs whose error events the log holds at start
SeedRuns == 4

(***************************************************************************)
(* Program constants                                                       *)
(***************************************************************************)
max_retries == 2
BackoffSeconds == 5
DisableThreshold == 10
CooldownSeconds == 86400
ErrorWindowDays == 7

(***************************************************************************)
(* Strings                                                                 *)
(***************************************************************************)
Uppers == "ABCDEFGHIJKLMNOPQRSTUVWXYZ"
Lowers == "abcdefghijklmnopqrstuvwxyz"

\* str.lower() on one character
LowerChar(c) ==
    IF \E i \in 1..26 : SubSeq(Uppers, i, i) = c
    THEN LET i == CHOOSE k \in 1..26 : SubSeq(Uppers, k, k) = c
         IN  SubSeq(Lowers, i, i)
    ELSE c

\* str.lower()
RECURSIVE Lower(_)
Lower(t) == IF Len(t) = 0 THEN "" ELSE LowerChar(SubSeq(t, 1, 1)) \o Lower(Tail(t))

\* Python's `p in t`
Contains(t, p) ==
    \E i \in 1..(Len(t) - Len(p) + 1) : SubSeq(t, i, i + Len(p) - 1) = p

\* SQL  t LIKE '%a%b%'  (LIKE compares ASCII letters without regard to case)
Like2(t, a, b) ==
    LET lt == Lower(t)
        la == Lower(a)
        lb == Lower(b)
    IN  \E i \in 1..(Len(lt) - Len(la) + 1) :
            /\ SubSeq(lt, i, i + Len(la) - 1) = la
            /\ Contains(SubSeq(lt, i + Len(la), Len(lt)), lb)

(***************************************************************************)
(* The source registry (table news_sources)                                *)
(***************************************************************************)
Sources == {1, 2}
SourceName == [s \in Sources |-> IF s = 1 THEN "Fleet Owner" ELSE "Fleet"]
SourceType == [s \in Sources |-> IF s = 1 THEN "rss" ELSE "website"]

Runners == {"sched", "manual"}

\* titles of the articles the sources publish
Titles == {"Freight rates rise", "New CDL rule"}

VARIABLES
    news_sources,   \* table news_sources: s -> [enabled, last_fetched, total_articles_fetched]
    posts,          \* table posts, committed rows in insertion order
    posting_logs,   \* table posting_logs, committed rows as a bag
    now,            \* wall clock, hours
    run,            \* per entry point: the locals of the invocation in progress
    session,        \* per entry point: db.session (loaded rows and pending changes)
    budget,         \* remaining time advances, runs, toggles and sweeps
    sweep,          \* whether the step just taken swept, and the sources it probed
    rss,            \* a call of _fetch_from_rss: the parsed feed, the position in it, the result
    classified,     \* the latest call of _is_trucking_related: its argument and its result
    health,         \* the last health report returned, and when it was taken
    limiter,        \* the rate limiter: clock (seconds), last_request_time, the call in progress
    handled,        \* the latest call of _handle_fetch_error on its own: the text, the result
    page,           \* a call of _fetch_from_website: the links of the page, the position, the result
    threads         \* per thread: a call of _rate_limit on the one fetcher; the latest returns

vars == <<news_sources, posts, posting_logs, now, run, session, budget, sweep, rss,
          classified, health, limiter, handled, page, threads>>


(***************************************************************************)
(* Error Classifier / Health Tracker                                       *)
(***************************************************************************)
ErrorKinds == {"access_denied", "not_found", "timeout", "connection_error", "unknown"}
\* variant: every kind of error counts as persistent
PersistentKindsAny == ErrorKinds

PersistentKinds == {"access_denied", "not_found"}

\* texts of the exceptions an extraction attempt raises
RawErrors ==
    { "403 Client Error: Forbidden",
      "404 Client Error: Not Found",
      "HTTPSConnectionPool: Read timed out",
      "Connection refused",
      "no element found" }

\* variant: '403' and 'Forbidden' are looked for in any case
error_type_anycase(error_str) ==
    IF Contains(Lower(error_str), "403") \/ Contains(Lower(error_str), "forbidden")
         THEN "access_denied"
    ELSE IF Contains(error_str, "404") \/ Contains(error_str, "Not Found") THEN "not_found"
    ELSE IF Contains(Lower(error_str), "timeout") \/ Contains(Lower(error_str), "timed out")
         THEN "timeout"
    ELSE IF Contains(Lower(error_str), "connection") \/ Contains(Lower(error_str), "refused")
         THEN "connection_error"
    ELSE "unknown"

\* the if/elif chain of _handle_fetch_error
error_type(error_str) ==
    IF Contains(error_str, "403") \/ Contains(error_str, "Forbidden") THEN "access_denied"
    ELSE IF Contains(error_str, "404") \/ Contains(error_str, "Not Found") THEN "not_found"
    ELSE IF Contains(Lower(error_str), "timeout") \/ Contains(Lower(error_str), "timed out")
         THEN "timeout"
    ELSE IF Contains(Lower(error_str), "connection") \/ Contains(Lower(error_str), "refused")
         THEN "connection_error"
    ELSE "unknown"

error_message(name, error_str) ==
    LET k == error_type(error_str)
    IN  IF k = "access_denied"
            THEN "Access denied (403) - " \o name \o " may be blocking automated requests"
        ELSE IF k = "not_found"
            THEN "RSS feed not found (404) - " \o name \o " URL may be incorrect"
        ELSE IF k = "timeout"
            THEN "Request timeout - " \o name \o " may be slow or unresponsive"
        ELSE IF k = "connection_error"
            THEN "Connection error - " \o name \o " may be down or unreachable"
        ELSE "Unknown error: " \o error_str

\* error_type on the texts of the model, computed once
KindOf == [e \in RawErrors |-> error_type(e)]

\* a row of posting_logs as _log_action builds it
LogRow(action, message, t) == [action |-> action, message |-> message, timestamp |-> t]

\* error_message on the sources and texts of the model, computed once
ErrorMessageOf ==
    [s \in Sources |-> [e \in RawErrors |-> error_message(SourceName[s], e)]]

\* the message _handle_fetch_error logs, computed once
ErrorLogMessage ==
    [s \in Sources |-> [e \in RawErrors |-> [a \in 1..(max_retries + 1) |->
        "Fetch attempt " \o ToString(a) \o " failed for " \o SourceName[s]
            \o ": " \o ErrorMessageOf[s][e]]]]

\* the row _handle_fetch_error logs
ErrorRow(s, error_str, attempt, t) ==
    LogRow("error", ErrorLogMessage[s][error_str][attempt], t)

DisableMessage ==
    [s \in Sources |-> [k \in ErrorKinds |->
        "Auto-disabled " \o SourceName[s] \o " due to persistent " \o k \o " errors"]]

EnableMessage ==
    [s \in Sources |->
        "Auto-enabled " \o SourceName[s] \o " - source appears to be working again"]

FetchMessage == [title \in Titles |-> "Saved article: " \o title]

DisableRow(s, kind, t) == LogRow("disable", DisableMessage[s][kind], t)

EnableRow(s, t) == LogRow("enable", EnableMessage[s], t)

FetchRow(title, t) == LogRow("fetch", FetchMessage[title], t)

\* every message the model logs
Messages ==
    UNION {{ErrorLogMessage[s][e][a] : a \in 1..(max_retries + 1)} :
              <<s, e>> \in Sources \X RawErrors}
      \cup {DisableMessage[s][k] : <<s, k>> \in Sources \X ErrorKinds}
      \cup {EnableMessage[s] : s \in Sources}
      \cup {FetchMessage[title] : title \in Titles}

\* message LIKE '%<name of s>%error%', computed once per message
LikeNameError == [m \in Messages |-> {s \in Sources : Like2(m, SourceName[s], "error")}]

\* _handle_fetch_error: the error_info it returns
handle_fetch_error(s, error_str, attempt) ==
    [ error_type    |-> KindOf[error_str],
      error_message |-> ErrorMessageOf[s][error_str],
      source_name   |-> SourceName[s],
      attempt       |-> attempt ]

\* SELECT COUNT(*) FROM posting_logs WHERE message LIKE '%name%error%'
\*   AND timestamp > datetime('now', '-<days> days')
recent_errors(logs, s, hours, t) ==
    LET hit == {e \in DOMAIN logs :
                    /\ s \in LikeNameError[e.message]
                    /\ e.timestamp > t - hours}
    IN  BagCardinality([e \in hit |-> logs[e]])

\* the condition under which _consider_disabling_source disables
should_disable(count, kind) == count >= DisableThreshold /\ kind \in PersistentKinds

(***************************************************************************)
(* Rows, sessions and the locals of an invocation                          *)
(***************************************************************************)
\* last_fetched of a source that was never fetched (NULL)
NoTime == 0 - 1

NoError == [error_type |-> "none", error_message |-> "", source_name |-> "", attempt |-> 0]

\* db.session of an entry point: the rows it loaded, the attributes it
\* changed, and the rows it added and has not committed
NoSession == [rows |-> << >>, dirty |-> {}, new_posts |-> << >>, new_logs |-> EmptyBag]

\* _is_trucking_related has not been called
NoClassification == [text |-> "", called |-> FALSE, relevant |-> FALSE]

\* _get_source_health_status has not been called
NoReport == [called |-> FALSE, at |-> 0, data |-> << >>]

\* time.time() when the fetcher is constructed, seconds
StartClock == 5

\* lines 31-32 of __init__, and no call of _rate_limit in progress
min_delay_between_requests == 2
NewLimiter ==
    [clock |-> StartClock, last_request_time |-> 0, pc |-> "out", caller |-> 0,
     current_time |-> 0, sleep_time |-> 0, wake |-> 0, slept |-> FALSE, returns |-> << >>]

\* no call of _fetch_from_website in progress; wire: as for the feed; tried:
\* what the extraction of each link that was followed found
NoPageCall ==
    [pc |-> "out", links |-> << >>, k |-> 0, articles |-> << >>, raised |-> "",
     wire |-> << >>, tried |-> << >>]

\* the threads that call _rate_limit on the one NewsFetcher of app.py: the
\* scheduled job and the thread of the manual route
Threads == {"scheduler", "route"}

\* no thread is inside _rate_limit; of a call: its position and its locals;
\* returns: the two latest returns of _rate_limit, of any thread
NoCalls ==
    [calls |-> [t \in Threads |->
                   [pc |-> "out", current_time |-> 0, sleep_time |-> 0, wake |-> 0]],
     returns |-> << >>]

\* _handle_fetch_error has not been called on its own
NotHandled == [called |-> FALSE, text |-> "", source |-> 0, info |-> NoError]

\* no call of _fetch_from_rss in progress; wire: the calls of _rate_limit and
\* the HTTP requests the call has issued, in order; fetched: what the
\* enrichment of each candidate found
NoFeedCall ==
    [entries |-> << >>, k |-> 0, articles |-> << >>, done |-> TRUE,
     wire |-> << >>, fetched |-> << >>]

IdleRun ==
    [ pc              |-> "idle",
      sources         |-> << >>,     \* the list read at the start of the run
      i               |-> 0,         \* position in sources
      retry_count     |-> 0,
      source_articles |-> << >>,     \* result of the latest attempt
      error_info      |-> NoError,   \* classification of the latest raise
      articles        |-> << >>,     \* candidates collected by the run
      j               |-> 0,         \* position in articles while saving
      saved_articles  |-> << >>,
      max_retries     |-> 0,         \* the argument of fetch_latest_news
      failure         |-> "",        \* the exception text the network gives during this run
      enabled_at_read |-> {},        \* sources whose enabled flag was true at the read
      attempts        |-> [s \in Sources |-> 0],
      sleeps          |-> [s \in Sources |-> 0],   \* seconds of backoff, per source
      succeeded       |-> {},        \* sources an attempt of this run got articles from
      final_error     |-> [s \in Sources |-> "none"],  \* kind of the raise that exhausted s
      returned        |-> << >>,     \* every article an attempt of this run returned
      reenabled       |-> {},        \* sources the sweep of this run re-enabled
      filtered        |-> {},        \* sources an attempt found entries of, none accepted
      handed          |-> << >> ]    \* the batch given to _process_and_save_articles

RECURSIVE SortedSeq(_)
SortedSeq(S) ==
    IF S = {} THEN << >>
    ELSE LET m == CHOOSE x \in S : \A y \in S : x <= y
         IN  <<m>> \o SortedSeq(S \ {m})

\* variant: the list is read without the enabled filter
EnabledListAll(rows) == SortedSeq(Sources)

\* NewsSource.query.filter_by(enabled=True).all()
EnabledList(rows) == SortedSeq({s \in Sources : rows[s].enabled})

\* variant: the existence check misses the rows the session has added
ExistsCommitted(sess, title) ==
    \E k \in 1..Len(posts) : posts[k].title = title

\* Post.query.filter_by(title=...).first() is not None, in a session
Exists(sess, title) ==
    \/ \E k \in 1..Len(posts) : posts[k].title = title
    \/ \E k \in 1..Len(sess.new_posts) : sess.new_posts[k].title = title

\* variant: the record is created as already posted
NewPostPosted(a) ==
    [title |-> a.title, url |-> a.url, source |-> a.source, status |-> "posted"]

\* Post(title=..., url=..., source=..., status='pending')
NewPost(a) ==
    [title |-> a.title, url |-> a.url, source |-> a.source, status |-> "pending"]

\* db.session.commit(): the changed attributes and the added rows reach the tables
CommittedSources(sess) ==
    [s \in Sources |->
        [f \in {"enabled", "last_fetched", "total_articles_fetched"} |->
            IF <<s, f>> \in sess.dirty THEN sess.rows[s][f] ELSE news_sources[s][f]]]

(***************************************************************************)
(* What the network answers                                                *)
(***************************************************************************)
Article(title, url, s) == [title |-> title, url |-> url, source |-> SourceName[s]]

\* the non-empty lists an extraction attempt on source s can return
Batches(s) ==
    { <<Article("Freight rates rise", "u1", s)>>,
      <<Article("New CDL rule", "u2", s), Article("New CDL rule", "u3", s)>> }

\* an extraction attempt returns a list or raises; entries: whether the feed
\* or page it retrieved had entries at all (line 127).  The list is empty when
\* there were none (line 129) and when the classifier accepted none (line 181)
Outcomes(s, error_str) ==
    {[raised |-> FALSE, error |-> "", articles |-> b, entries |-> TRUE] : b \in Batches(s)}
        \cup {[raised |-> FALSE, error |-> "", articles |-> << >>, entries |-> e] :
                  e \in BOOLEAN}
        \cup {[raised |-> TRUE, error |-> error_str, articles |-> << >>, entries |-> FALSE]}

\* no sweep in the step just taken; of a sweep: the sources it probed, what
\* the probes found, and whether its commit went through
\* (flipped: the sources it re-enabled; paths: the extraction each probe went
\* through; prior: the same facts of a sweep in the step before)
NoPrior == [ran |-> FALSE, feeds |-> << >>, committed |-> FALSE, flipped |-> {}]
NoSweep ==
    [ran |-> FALSE, probed |-> {}, feeds |-> << >>, committed |-> FALSE,
     flipped |-> {}, paths |-> << >>, prior |-> NoPrior]

\* what feedparser.parse gives the sweeper's probe
ProbeFeeds ==
    { [raised |-> TRUE,  entries |-> 0],
      [raised |-> FALSE, entries |-> 0],
      [raised |-> FALSE, entries |-> 1] }

(***************************************************************************)
(* Recovery Sweeper                                                        *)
(***************************************************************************)
\* test_rss_source: the keys of the result that auto_recover_sources reads
test_rss_source(feed) ==
    IF feed.raised THEN [error |-> "exception", total_entries |-> 0]
    ELSE IF feed.entries > 0 THEN [error |-> "", total_entries |-> feed.entries]
    ELSE [error |-> "No entries found", total_entries |-> 0]

\* variant: the cooldown counts as elapsed at exactly 24 hours
CooldownElapsedAt(last_fetched, t) ==
    last_fetched # NoTime /\ (t - last_fetched) * 3600 >= CooldownSeconds

\* the cooldown test of auto_recover_sources
CooldownElapsed(last_fetched, t) ==
    last_fetched # NoTime /\ (t - last_fetched) * 3600 > CooldownSeconds

\* the extraction fetch_latest_news uses for a source (lines 56-59):
\* _fetch_from_rss reads a feed, _fetch_from_website reads a page
FetchPath(type) == IF type = "rss" THEN "feed" ELSE "page"

\* the extraction the probe of the sweeper uses (line 700): test_rss_source
\* gives the url of the source to feedparser.parse (line 535), whatever its type
ProbePath(type) == "feed"

\* variant: every source whose cooldown has elapsed is probed, enabled or not
DueSourcesAll(rows, t) ==
    {s \in Sources : CooldownElapsed(rows[s].last_fetched, t)}

\* disabled sources the sweep probes
DueSources(rows, t) ==
    {s \in Sources : ~rows[s].enabled /\ CooldownElapsed(rows[s].last_fetched, t)}

\* variant: every probed source counts as recovered, whatever the probe found
RecoveredAny(rows, feeds, t) == DueSources(rows, t)

Recovered(rows, feeds, t) ==
    {s \in DueSources(rows, t) :
        LET test_result == test_rss_source(feeds[s])
        IN  test_result.error = "" /\ test_result.total_entries > 0}

\* auto_recover_sources, as a step on the tables: probes, flips, commit or rollback
auto_recover_sources(feeds, commit_ok) ==
    LET rec == Recovered(news_sources, feeds, now)
    IN  /\ sweep' = [ran |-> TRUE, probed |-> DueSources(news_sources, now),
                      feeds |-> feeds, committed |-> commit_ok,
                      flipped |-> IF commit_ok
                                  THEN {s \in rec : ~news_sources[s].enabled} ELSE {},
                      paths |-> [s \in DueSources(news_sources, now) |->
                                    ProbePath(SourceType[s])],
                      prior |-> [ran |-> sweep.ran, feeds |-> sweep.feeds,
                                 committed |-> sweep.committed,
                                 flipped |-> sweep.flipped]]
        /\ IF commit_ok
           THEN /\ news_sources' =
                       [s \in Sources |->
                           IF s \in rec THEN [news_sources[s] EXCEPT !.enabled = TRUE]
                           ELSE news_sources[s]]
                /\ posting_logs' =
                       posting_logs (+) SetToBag({EnableRow(s, now) : s \in rec})
           ELSE UNCHANGED <<news_sources, posting_logs>>

\* a call of the public method on its own
Sweep ==
    /\ budget.sweeps > 0
    /\ budget' = [budget EXCEPT !.sweeps = @ - 1]
    /\ \E feeds \in [DueSources(news_sources, now) -> ProbeFeeds], commit_ok \in BOOLEAN :
           auto_recover_sources(feeds, commit_ok)
    /\ UNCHANGED <<posts, now, run, session, rss, classified, health, limiter, handled, page, threads>>

(***************************************************************************)
(* Manual controls and the clock                                           *)
(***************************************************************************)
\* route /news_sources/<id>/toggle
toggle_news_source(s) ==
    /\ budget.toggles > 0
    /\ budget' = [budget EXCEPT !.toggles = @ - 1]
    /\ news_sources' = [news_sources EXCEPT ![s].enabled = ~@]
    /\ sweep' = NoSweep
    /\ UNCHANGED <<posts, posting_logs, now, run, session, rss, classified, health, limiter, handled, page, threads>>

\* hours by which the clock moves between invocations
TimeSteps == {23, 24, 25}

AdvanceTime ==
    /\ budget.ticks > 0
    /\ \E d \in TimeSteps : now' = now + d
    /\ budget' = [budget EXCEPT !.ticks = @ - 1]
    /\ sweep' = NoSweep
    /\ UNCHANGED <<news_sources, posts, posting_logs, run, session, rss, classified, health, limiter, handled, page, threads>>

(***************************************************************************)
(* Fetch Orchestrator: fetch_latest_news                                   *)
(***************************************************************************)
Finish(r) ==
    /\ run' = [run EXCEPT ![r] = IdleRun]
    /\ session' = [session EXCEPT ![r] = NoSession]

\* lines 36-47: read the enabled sources, return if there are none, else sweep.
\* retries: the values callers pass for max_retries; errors: the exception
\* texts the network can give during the run
fetch_latest_news(retries, errors) ==
    /\ run["sched"].pc = "idle"
    /\ budget.runs > 0
    /\ budget' = [budget EXCEPT !.runs = @ - 1]
    /\ LET sources == EnabledList(news_sources)
       IN  IF sources = << >>
           THEN /\ sweep' = NoSweep
                /\ UNCHANGED <<news_sources, posting_logs, run, session>>
           ELSE /\ \E feeds \in [DueSources(news_sources, now) -> ProbeFeeds],
                      commit_ok \in BOOLEAN :
                        auto_recover_sources(feeds, commit_ok)
                /\ \E mr \in retries, e \in errors :
                     run' = [run EXCEPT !["sched"] =
                              [IdleRun EXCEPT !.pc = "fetch", !.sources = sources, !.i = 1,
                                   !.max_retries = mr, !.failure = e,
                                   !.enabled_at_read =
                                       {s \in Sources : news_sources[s].enabled},
                                   !.reenabled =
                                       {s \in Sources : /\ ~news_sources[s].enabled
                                                        /\ news_sources'[s].enabled}]]
                /\ session' = [session EXCEPT !["sched"] =
                                  [NoSession EXCEPT !.rows = news_sources']]
    /\ UNCHANGED <<posts, now, rss, classified, health, limiter, handled, page, threads>>

\* variant: the source is disabled without a disable event
consider_disabling_source_silent(sess, s, info) ==
    LET count == recent_errors(posting_logs (+) sess.new_logs, s,
                               ErrorWindowDays * 24, now)
    IN  IF should_disable(count, info.error_type)
        THEN [sess EXCEPT !.rows[s].enabled = FALSE,
                          !.dirty = @ \cup {<<s, "enabled">>}]
        ELSE sess

\* _consider_disabling_source on the session of the run
consider_disabling_source(sess, s, info) ==
    LET count == recent_errors(posting_logs (+) sess.new_logs, s,
                               ErrorWindowDays * 24, now)
    IN  IF should_disable(count, info.error_type)
        THEN [sess EXCEPT !.rows[s].enabled = FALSE,
                          !.dirty = @ \cup {<<s, "enabled">>},
                          !.new_logs = @ (+) SetToBag({DisableRow(s, info.error_type, now)})]
        ELSE sess

\* variant: a success stamps last_fetched but forgets the lifetime count
RecordSuccessNoCount(sess, s, n) ==
    [sess EXCEPT !.rows[s].last_fetched = now,
                 !.dirty = @ \cup {<<s, "last_fetched">>}]

\* lines 61-64 and app.py 761-764: a non-empty result
RecordSuccess(sess, s, n) ==
    [sess EXCEPT !.rows[s].last_fetched = now,
                 !.rows[s].total_articles_fetched = @ + n,
                 !.dirty = @ \cup {<<s, "last_fetched">>, <<s, "total_articles_fetched">>}]

\* variant: a last attempt that returns nothing leaves last_fetched alone
RecordExhaustedUnstamped(sess, s) == sess

\* lines 73-75: the last attempt returned an empty list
RecordExhausted(sess, s) ==
    [sess EXCEPT !.rows[s].last_fetched = now,
                 !.dirty = @ \cup {<<s, "last_fetched">>}]

\* variant: a source that is exhausted without articles ends the run
AdvanceAbort(rn, source_done) ==
    IF ~source_done
    THEN [rn EXCEPT !.retry_count = @ + 1]
    ELSE IF rn.i < Len(rn.sources) /\ rn.source_articles # << >>
         THEN [rn EXCEPT !.i = @ + 1, !.retry_count = 0]
         ELSE [rn EXCEPT !.i = Len(rn.sources) + 1, !.retry_count = 0,
                         !.pc = IF rn.articles # << >> THEN "save" ELSE "commit",
                         !.j = 1,
                         !.handed = rn.articles]

\* the run moves on: next retry, next source, or out of the loop
Advance(rn, source_done) ==
    IF ~source_done
    THEN [rn EXCEPT !.retry_count = @ + 1]
    ELSE IF rn.i < Len(rn.sources)
         THEN [rn EXCEPT !.i = @ + 1, !.retry_count = 0]
         ELSE [rn EXCEPT !.i = @ + 1, !.retry_count = 0,
                         !.pc = IF rn.articles # << >> THEN "save" ELSE "commit",
                         !.j = 1,
                         !.handed = rn.articles]

\* does the while loop of lines 52-92 leave the source after this attempt?
SourceDone(succeeded, retry_count, mr) == succeeded \/ retry_count >= mr

\* variant: the run sleeps after every failed attempt, the last included
BackoffAlways(succeeded, retry_count, mr) == ~succeeded

\* does the run sleep after this attempt (lines 70-72 and 80-82)?
Backoff(succeeded, retry_count, mr) == ~succeeded /\ retry_count < mr

\* is _consider_disabling_source called after this raise (lines 83-88)?
DisableConsidered(retry_count, mr, kind) == retry_count >= mr /\ kind \in PersistentKinds

\* the sources are down: an attempt raises or returns nothing
Outages(s, error_str) == {o \in Outcomes(s, error_str) : o.articles = << >>}

\* one pass of the while loop of lines 52-92, the extraction attempt answering
\* with one of Outcomes(source, exception text of the run), or with one of
\* Outages(...) when the sources are down
fetch_attempt_with(down) ==
    /\ run["sched"].pc = "fetch"
    /\ LET rn == run["sched"]
           s == rn.sources[rn.i]
           sess == session["sched"]
       IN  \E o \in (IF down THEN Outages(s, rn.failure) ELSE Outcomes(s, rn.failure)) :
             LET ok == ~o.raised /\ o.articles # << >>
                 last == rn.retry_count >= rn.max_retries
                 info == IF o.raised
                         THEN handle_fetch_error(s, o.error, rn.retry_count + 1)
                         ELSE rn.error_info
                 logged == IF o.raised
                           THEN [sess EXCEPT !.new_logs =
                                    @ (+) SetToBag({ErrorRow(s, o.error, rn.retry_count + 1, now)})]
                           ELSE sess
                 sess1 == IF ok THEN RecordSuccess(sess, s, Len(o.articles))
                          ELSE IF ~o.raised
                               THEN IF last THEN RecordExhausted(sess, s) ELSE sess
                          ELSE IF DisableConsidered(rn.retry_count, rn.max_retries,
                                                    info.error_type)
                               THEN consider_disabling_source(logged, s, info)
                               ELSE logged
                 rn1 == [rn EXCEPT !.source_articles = o.articles,
                                   !.error_info = info,
                                   !.articles = @ \o o.articles,
                                   !.returned = @ \o o.articles,
                                   !.attempts[s] = @ + 1,
                                   !.succeeded = IF ok THEN @ \cup {s} ELSE @,
                                   !.filtered = IF ~o.raised /\ o.articles = << >> /\ o.entries
                                                THEN @ \cup {s} ELSE @,
                                   !.final_error[s] =
                                       IF o.raised /\ last THEN info.error_type ELSE @,
                                   !.sleeps[s] =
                                       IF Backoff(ok, rn.retry_count, rn.max_retries)
                                       THEN @ + BackoffSeconds ELSE @]
             IN  /\ run' = [run EXCEPT !["sched"] =
                        Advance(rn1, SourceDone(ok, rn.retry_count, rn.max_retries))]
                 /\ session' = [session EXCEPT !["sched"] = sess1]
    /\ sweep' = NoSweep
    /\ UNCHANGED <<news_sources, posts, posting_logs, now, budget, rss, classified, health, limiter, handled, page, threads>>

\* the pass, with all that an extraction attempt can answer
fetch_attempt == fetch_attempt_with(FALSE)

(***************************************************************************)
(* Deduplication and persistence                                           *)
(***************************************************************************)
\* one pass of the for loop of _process_and_save_articles (lines 323-350)
process_and_save_articles(r) ==
    /\ run[r].pc = "save"
    /\ LET rn == run[r]
           a == rn.articles[rn.j]
           sess == session[r]
           next == [rn EXCEPT !.j = @ + 1,
                              !.pc = IF rn.j < Len(rn.articles) THEN "save" ELSE "commit"]
       IN  IF Exists(sess, a.title)
           THEN /\ run' = [run EXCEPT ![r] = next]
                /\ UNCHANGED session
           ELSE /\ run' = [run EXCEPT ![r] = [next EXCEPT !.saved_articles = Append(@, a)]]
                /\ session' = [session EXCEPT ![r] =
                       [sess EXCEPT !.new_posts = Append(@, NewPost(a)),
                                    !.new_logs = @ (+) SetToBag({FetchRow(a.title, now)})]]
    /\ sweep' = NoSweep
    /\ UNCHANGED <<news_sources, posts, posting_logs, now, budget, rss, classified, health, limiter, handled, page, threads>>

\* lines 102-106: the commit at the end of the run, or the rollback when it fails
commit_run ==
    /\ run["sched"].pc = "commit"
    /\ \E commit_ok \in BOOLEAN :
        IF commit_ok
        THEN /\ news_sources' = CommittedSources(session["sched"])
             /\ posts' = posts \o session["sched"].new_posts
             /\ posting_logs' = posting_logs (+) session["sched"].new_logs
             /\ Finish("sched")
        ELSE /\ UNCHANGED <<news_sources, posts, posting_logs>>
             /\ IF run["sched"].articles = << >>
                THEN Finish("sched")
                ELSE /\ run' = [run EXCEPT !["sched"].pc = "fallback", !["sched"].j = 1]
                     /\ session' = [session EXCEPT !["sched"] = NoSession]
    /\ sweep' = NoSweep
    /\ UNCHANGED <<now, budget, rss, classified, health, limiter, handled, page, threads>>

\* variant: an article that cannot be saved ends the fallback
save_single_article_stops ==
    /\ run["sched"].pc = "fallback"
    /\ LET rn == run["sched"]
           a == rn.articles[rn.j]
           sess == session["sched"]
           more == rn.j < Len(rn.articles)
           step(s2) == IF more
                       THEN /\ run' = [run EXCEPT !["sched"].j = @ + 1]
                            /\ session' = [session EXCEPT !["sched"] = s2]
                       ELSE Finish("sched")
       IN  IF Exists(sess, a.title)
           THEN /\ step(sess)
                /\ UNCHANGED <<posts, posting_logs>>
           ELSE \E commit_ok \in BOOLEAN :
                  IF commit_ok
                  THEN /\ posts' = Append(posts, NewPost(a))
                       /\ posting_logs' = posting_logs (+) sess.new_logs
                       /\ step([NoSession EXCEPT
                                   !.new_logs = SetToBag({FetchRow(a.title, now)})])
                  ELSE /\ UNCHANGED <<posts, posting_logs>>
                       /\ Finish("sched")
    /\ sweep' = NoSweep
    /\ UNCHANGED <<news_sources, now, budget, rss, classified, health, limiter, handled, page, threads>>

\* lines 108-112: _save_single_article on the next collected article
save_single_article ==
    /\ run["sched"].pc = "fallback"
    /\ LET rn == run["sched"]
           a == rn.articles[rn.j]
           sess == session["sched"]
           more == rn.j < Len(rn.articles)
           step(s2) == IF more
                       THEN /\ run' = [run EXCEPT !["sched"].j = @ + 1]
                            /\ session' = [session EXCEPT !["sched"] = s2]
                       ELSE Finish("sched")
       IN  IF Exists(sess, a.title)
           THEN /\ step(sess)
                /\ UNCHANGED <<posts, posting_logs>>
           ELSE \E commit_ok \in BOOLEAN :
                  IF commit_ok
                  THEN /\ posts' = Append(posts, NewPost(a))
                       /\ posting_logs' = posting_logs (+) sess.new_logs
                       /\ step([NoSession EXCEPT
                                   !.new_logs = SetToBag({FetchRow(a.title, now)})])
                  ELSE /\ UNCHANGED <<posts, posting_logs>>
                       /\ step(NoSession)
    /\ sweep' = NoSweep
    /\ UNCHANGED <<news_sources, now, budget, rss, classified, health, limiter, handled, page, threads>>

(***************************************************************************)
(* The manual route: fetch_news.fetch_news_async (app.py)                  *)
(***************************************************************************)
\* app.py 742-745: read the enabled sources
fetch_news_async(errors) ==
    /\ run["manual"].pc = "idle"
    /\ budget.runs > 0
    /\ budget' = [budget EXCEPT !.runs = @ - 1]
    /\ LET sources == EnabledList(news_sources)
       IN  /\ \E e \in errors :
                run' = [run EXCEPT !["manual"] =
                        [IdleRun EXCEPT !.pc = IF sources = << >> THEN "commit" ELSE "fetch",
                                        !.sources = sources, !.i = 1, !.j = 1,
                                        !.failure = e,
                                        !.enabled_at_read =
                                            {s \in Sources : news_sources[s].enabled}]]
           /\ session' = [session EXCEPT !["manual"] = [NoSession EXCEPT !.rows = news_sources]]
    /\ sweep' = NoSweep
    /\ UNCHANGED <<news_sources, posts, posting_logs, now, rss, classified, health, limiter, handled, page, threads>>

\* app.py 746-772: one pass of the for loop, a single attempt per source
fetch_news_attempt ==
    /\ run["manual"].pc = "fetch"
    /\ LET rn == run["manual"]
           s == rn.sources[rn.i]
           sess == session["manual"]
       IN  \E o \in Outcomes(s, rn.failure) :
             LET ok == ~o.raised /\ o.articles # << >>
                 rn1 == [rn EXCEPT !.source_articles = o.articles,
                                   !.articles = @ \o o.articles,
                                   !.returned = @ \o o.articles,
                                   !.succeeded = IF ok THEN @ \cup {s} ELSE @,
                                   !.attempts[s] = @ + 1]
             IN  /\ run' = [run EXCEPT !["manual"] = Advance(rn1, TRUE)]
                 /\ session' = [session EXCEPT !["manual"] =
                        IF ok THEN RecordSuccess(sess, s, Len(o.articles)) ELSE sess]
    /\ sweep' = NoSweep
    /\ UNCHANGED <<news_sources, posts, posting_logs, now, budget, rss, classified, health, limiter, handled, page, threads>>

\* app.py 783/785 with 152-155: tracker.complete commits the session
tracker_complete ==
    /\ run["manual"].pc = "commit"
    /\ \E commit_ok \in BOOLEAN :
        IF commit_ok
        THEN /\ news_sources' = CommittedSources(session["manual"])
             /\ posts' = posts \o session["manual"].new_posts
             /\ posting_logs' = posting_logs (+) session["manual"].new_logs
        ELSE UNCHANGED <<news_sources, posts, posting_logs>>
    /\ Finish("manual")
    /\ sweep' = NoSweep
    /\ UNCHANGED <<now, budget, rss, classified, health, limiter, handled, page, threads>>

(***************************************************************************)
(* Initial states and specifications                                       *)
(***************************************************************************)
\* error events that SeedRuns earlier exhausted runs on source 1 left in the log
SeedLog(error_str) ==
    [e \in {ErrorRow(1, error_str, a, 0) : a \in 1..(max_retries + 1)} |-> SeedRuns]

InitTables ==
    /\ news_sources = [s \in Sources |->
          [enabled |-> TRUE, last_fetched |-> NoTime, total_articles_fetched |-> 0]]
    /\ posts = << >>
    /\ now = 0
    /\ run = [r \in Runners |-> IdleRun]
    /\ session = [r \in Runners |-> NoSession]
    /\ sweep = NoSweep
    /\ rss = NoFeedCall
    /\ classified = NoClassification
    /\ health = NoReport
    /\ limiter = NewLimiter
    /\ handled = NotHandled
    /\ page = NoPageCall
    /\ threads = NoCalls

Idle == \A r \in Runners : run[r].pc = "idle"

\* One scheduled run with the default max_retries, on a log that earlier runs
\* may have filled
Init ==
    /\ InitTables
    /\ posting_logs \in {EmptyBag} \cup {SeedLog(e) : e \in RawErrors}
    /\ budget = [ticks |-> 0, runs |-> 1, toggles |-> 0, sweeps |-> 0]

Next ==
    \/ fetch_latest_news({max_retries}, RawErrors)
    \/ fetch_attempt
    \/ process_and_save_articles("sched")
    \/ commit_run
    \/ save_single_article

Spec == Init /\ [][Next]_vars

\* Invocations one after the other (scheduled runs, manual runs, sweeps),
\* with manual toggles at any moment and the clock moving between invocations
InitSeq ==
    /\ InitTables
    /\ posting_logs = EmptyBag
    /\ budget = [ticks |-> MaxTicks, runs |-> MaxRuns, toggles |-> MaxToggles,
                 sweeps |-> MaxSweeps]

SeqErrors == {"403 Client Error: Forbidden"}

NextSeq ==
    \/ Idle /\ fetch_latest_news({0}, SeqErrors)
    \/ fetch_attempt
    \/ \E r \in Runners : process_and_save_articles(r)
    \/ commit_run
    \/ save_single_article
    \/ Idle /\ fetch_news_async(SeqErrors)
    \/ fetch_news_attempt
    \/ tracker_complete
    \/ Idle /\ Sweep
    \/ \E s \in Sources : toggle_news_source(s)
    \/ Idle /\ AdvanceTime

SpecSeq == InitSeq /\ [][NextSeq]_vars

\* The same, with the run never starved: the Orchestrator is sequential code
\* whose sleeps and network calls all return, so an enabled step is taken.
SpecLive == Init /\ [][Next]_vars /\ WF_vars(Next)

(***************************************************************************)
(* Properties of one scheduled run                                         *)
(***************************************************************************)
Sched == run["sched"]

InSession == Sched.pc \in {"fetch", "save", "commit"}

TransientKinds == {"timeout", "connection_error", "unknown"}

\* number of error events of kind k that _handle_fetch_error has logged for s
\* (committed, or added by the run in progress) in the trailing 7 days
LoggedErrors(s, k) ==
    LET logs == posting_logs (+) session["sched"].new_logs
        hit == {e \in DOMAIN logs :
                   /\ e.action = "error"
                   /\ e.timestamp > now - 7 * 24
                   /\ \E x \in RawErrors, a \in 1..(max_retries + 1) :
                         KindOf[x] = k /\ e.message = ErrorLogMessage[s][x][a]}
    IN  BagCardinality([e \in hit |-> logs[e]])

\* has the run in progress logged a disable event for s?
DisableLogged(s) ==
    \E e \in DOMAIN session["sched"].new_logs :
        e.action = "disable" /\ \E k \in ErrorKinds : e.message = DisableMessage[s][k]

\* C2: a source whose every attempt of the run raised access_denied, with 10
\* or more access_denied events logged for it in the trailing 7 days, ends the
\* run's final attempt disabled and with a disable event appended.
C2_AccessDeniedDisables ==
    \A s \in Sources :
        ( /\ InSession
          /\ Sched.final_error[s] = "access_denied"
          /\ \A a \in 1..(max_retries + 1) :
                \E x \in RawErrors :
                    /\ KindOf[x] = "access_denied"
                    /\ ErrorRow(s, x, a, now) \in DOMAIN session["sched"].new_logs
          /\ LoggedErrors(s, "access_denied") >= 10 )
        => /\ ~session["sched"].rows[s].enabled
           /\ DisableLogged(s)

\* C3: a run whose final failed attempt on a source is timeout,
\* connection_error or unknown leaves the source enabled and logs no disable
\* event for it, whatever the log holds; the commit of the run keeps it so.
C3_State ==
    \A s \in Sources :
        (InSession /\ Sched.final_error[s] \in TransientKinds)
        => /\ session["sched"].rows[s].enabled
           /\ <<s, "enabled">> \notin session["sched"].dirty
           /\ ~DisableLogged(s)

C3_Step ==
    \A s \in Sources :
        Sched.final_error[s] \in TransientKinds
        => news_sources'[s].enabled = news_sources[s].enabled

C3_TransientNeverDisables == [](C3_State) /\ [][C3_Step]_vars

C3_Witness ==
    /\ Sched.pc = "commit"
    /\ Sched.final_error[1] = "timeout"
    /\ LoggedErrors(1, "timeout") >= 10
    /\ session["sched"].rows[1].enabled

\* C7: when the loop over the sources is over, every source of the list has
\* had an attempt, the batch given to persistence is every article the
\* attempts returned, and after _process_and_save_articles each of them is
\* stored or staged.
C7_Bulkhead ==
    Sched.pc \in {"save", "commit", "fallback"}
    => /\ \A k \in 1..Len(Sched.sources) : Sched.attempts[Sched.sources[k]] >= 1
       /\ Sched.handed = Sched.returned
       /\ Sched.pc = "commit" =>
             \A k \in 1..Len(Sched.returned) :
                 Exists(session["sched"], Sched.returned[k].title)

\* source 1 was exhausted and auto-disabled, source 2 was still fetched
C7_Witness ==
    /\ Sched.pc = "save"
    /\ Sched.sources = <<1, 2>>
    /\ Sched.final_error[1] = "access_denied"
    /\ ~session["sched"].rows[1].enabled
    /\ 2 \in Sched.succeeded
    /\ Sched.handed # << >>

\* C8: per source between 1 and max_retries+1 attempts, exactly max_retries+1
\* when none succeeded, a 5-second sleep after every failed attempt but the
\* last (sleeps = attempts - 1), and the run ends.
C8_State ==
    Sched.pc # "idle"
    => \A k \in 1..Len(Sched.sources) :
         LET s == Sched.sources[k]
         IN  /\ Sched.attempts[s] <= Sched.max_retries + 1
             /\ k < Sched.i =>
                   /\ Sched.attempts[s] >= 1
                   /\ Sched.sleeps[s] = 5 * (Sched.attempts[s] - 1)
                   /\ s \notin Sched.succeeded => Sched.attempts[s] = Sched.max_retries + 1
             /\ k = Sched.i => Sched.sleeps[s] = 5 * Sched.attempts[s]
             /\ k > Sched.i => Sched.attempts[s] = 0

C8_RetryBounds == [](C8_State) /\ ((Sched.pc # "idle") ~> (Sched.pc = "idle"))

C8_Witness ==
    /\ Sched.pc = "commit"
    /\ Sched.max_retries = 2
    /\ Sched.attempts[1] = 3
    /\ Sched.sleeps[1] = 10
    /\ 1 \notin Sched.succeeded

\* C9: an attempt that returns n >= 1 articles after a failed attempt sets
\* last_fetched to the time of the attempt, adds exactly n to the lifetime
\* count, leaves enabled alone, logs nothing, and ends the retries of the
\* source; a source that has succeeded gets no further attempt in the run.
C9_Step ==
    LET rn == run["sched"]
        rn2 == run'["sched"]
    IN  /\ \A s \in Sources :
            ( /\ rn.pc = "fetch"
              /\ rn.sources[rn.i] = s
              /\ rn.retry_count >= 1
              /\ rn2.attempts[s] = rn.attempts[s] + 1
              /\ rn2.source_articles # << >> )
            => /\ session'["sched"].rows[s].last_fetched = now
               /\ session'["sched"].rows[s].total_articles_fetched =
                      session["sched"].rows[s].total_articles_fetched
                          + Len(rn2.source_articles)
               /\ session'["sched"].rows[s].enabled = session["sched"].rows[s].enabled
               /\ session'["sched"].new_logs = session["sched"].new_logs
               /\ rn2.i = rn.i + 1
        /\ \A s \in rn.succeeded :
               rn2.pc # "idle" => rn2.attempts[s] = rn.attempts[s]

C9_SuccessAfterRetry == [][C9_Step]_vars

\* attempt 1 on source 1 timed out, attempt 2 returned one article
C9_Witness ==
    /\ InSession
    /\ Sched.max_retries = 2
    /\ Sched.attempts[1] = 2
    /\ 1 \in Sched.succeeded
    /\ Sched.error_info.error_type = "timeout"
    /\ Sched.error_info.source_name = SourceName[1]
    /\ session["sched"].rows[1].last_fetched = now
    /\ session["sched"].rows[1].total_articles_fetched = 1
    /\ session["sched"].rows[1].enabled

(***************************************************************************)
(* Two invocations at once: a scheduled run and a manual trigger, each     *)
(* with its own session, their steps interleaved                           *)
(***************************************************************************)
InitConc ==
    /\ InitTables
    /\ posting_logs = EmptyBag
    /\ budget = [ticks |-> 0, runs |-> MaxRuns, toggles |-> 0, sweeps |-> 0]

NextConc ==
    \/ fetch_latest_news({0}, SeqErrors)
    \/ fetch_attempt
    \/ \E r \in Runners : process_and_save_articles(r)
    \/ commit_run
    \/ save_single_article
    \/ fetch_news_async(SeqErrors)
    \/ fetch_news_attempt
    \/ tracker_complete

SpecConc == InitConc /\ [][NextConc]_vars

(***************************************************************************)
(* Properties of sequences of invocations                                  *)
(***************************************************************************)
\* C1: a run (scheduled or manual) makes an extraction attempt only on
\* sources whose enabled flag was true when it read its list, whatever the
\* sweeper and the toggles did before or do meanwhile; the only contact with
\* a disabled source is the sweeper's probe, and it probes disabled sources only.
C1_Step ==
    /\ \A r \in Runners, s \in Sources :
           run'[r].attempts[s] > run[r].attempts[s] => s \in run[r].enabled_at_read
    /\ \A s \in sweep'.probed : ~news_sources[s].enabled

C1_DisabledNeverFetched == [][C1_Step]_vars

\* source 1 was disabled at the read: the run is over, only source 2 was tried
C1_Witness ==
    \E r \in Runners :
        /\ run[r].pc = "commit"
        /\ run[r].enabled_at_read = {2}
        /\ run[r].attempts[1] = 0
        /\ run[r].attempts[2] >= 1
        /\ ~news_sources[1].enabled

\* C4: a sweep probes a disabled source if and only if its last_fetched is
\* set and more than 24 hours old, and re-enables only sources it probed.
C4_Step ==
    sweep'.ran =>
        \A s \in Sources :
            ~news_sources[s].enabled =>
                LET elapsed == news_sources[s].last_fetched # NoTime
                                   /\ now - news_sources[s].last_fetched > 24
                IN  /\ s \in sweep'.probed <=> elapsed
                    /\ news_sources'[s].enabled => elapsed

C4_SweeperCooldown == [][C4_Step]_vars

\* a sweep has just probed a disabled source last fetched 25 hours before
C4_Witness ==
    /\ sweep.ran
    /\ \E s \in sweep.probed :
           /\ news_sources[s].last_fetched # NoTime
           /\ now - news_sources[s].last_fetched = 25

C6_ConcurrentOneRecordPerTitle ==
    \A title \in Titles :
        Cardinality({k \in 1..Len(posts) : posts[k].title = title}) <= 1

(***************************************************************************)
(* Relevance Classifier: _is_trucking_related                              *)
(***************************************************************************)
\* self.trucking_keywords, as written in __init__
trucking_keywords ==
    { "trucking", "logistics", "freight", "transportation", "shipping",
      "supply chain", "cargo", "delivery", "fleet", "driver", "trucker",
      "commercial vehicle", "semi truck", "trailer", "dispatch",
      "CDL", "DOT", "FMCSA", "hours of service", "ELD" }

usa_indicators == {"usa", "united states", "america", "us ", "federal", "dot", "fmcsa"}

transport_terms ==
    {"transport", "deliver", "ship", "cargo", "fleet", "driver", "truck", "logistics", "freight"}

industry_terms ==
    {"cdl", "eld", "hours of service", "commercial vehicle", "semi", "trailer", "dispatch",
     "carrier"}

business_terms ==
    {"market", "industry", "business", "company", "fleet", "driver", "pay", "salary",
     "regulation"}

is_trucking_related(text) ==
    LET text_lower == Lower(text)
        any(terms) == \E term \in terms : Contains(text_lower, term)
        has_usa_indicator == any(usa_indicators)
        has_transport_term == any(transport_terms)
        has_industry_term == any(industry_terms)
        has_business_term == any(business_terms)
    IN  IF any(trucking_keywords) THEN TRUE
        ELSE IF has_industry_term THEN TRUE
        ELSE IF has_transport_term /\ has_usa_indicator THEN TRUE
        ELSE IF has_business_term /\ has_transport_term THEN TRUE
        ELSE FALSE

(***************************************************************************)
(* Feed Extractor: _fetch_from_rss                                         *)
(***************************************************************************)
\* a feed of the model has at most this many freely chosen entries, ...
MaxShortFeed == 3
\* ... or is a long one of this many entries
MaxFeedLen == 11

\* feed.entries[:10]
FeedLimit == 10

Entry(title, summary, link) == [title |-> title, summary |-> summary, link |-> link]

Entries ==
    { Entry("Trucking rates climb", "", "l1"),
      Entry("FMCSA update", "", "l2"),
      Entry("Local bakery opens", "", "l3"),
      Entry("Weekly report", "Freight market slows", "l4") }

\* the argument _fetch_from_rss gives the classifier for an entry
EntryText(e) == e.title \o " " \o e.summary

\* _is_trucking_related on the entries of the model, computed once
Relevant == [e \in Entries |-> is_trucking_related(EntryText(e))]

\* long feeds: irrelevant entries and one relevant entry around the limit
LongFeeds ==
    { [k \in 1..MaxFeedLen |->
          IF k = p THEN Entry("Trucking rates climb", "", "l1")
          ELSE Entry("Local bakery opens", "", "l3")] : p \in FeedLimit..MaxFeedLen }

Feeds == UNION {[1..n -> Entries] : n \in 0..MaxShortFeed} \cup LongFeeds

\* what newspaper and the requests fallback give for the link of an entry
Enrichments ==
    { [raised |-> FALSE, text |-> "full text", alt_content |-> ""],
      [raised |-> FALSE, text |-> "", alt_content |-> ""],
      [raised |-> TRUE, text |-> "", alt_content |-> "alt text"],
      [raised |-> TRUE, text |-> "", alt_content |-> ""] }

\* an article without the key 'content'
NoContent == "(no content)"

\* lines 136-171: the candidate built for a relevant entry
Candidate(e, x) ==
    [ title   |-> e.title,
      url     |-> e.link,
      summary |-> e.summary,
      source  |-> SourceName[1],
      content |-> IF ~x.raised
                  THEN (IF x.text # "" THEN x.text ELSE NoContent)
                  ELSE (IF x.alt_content # "" THEN x.alt_content ELSE e.summary) ]

\* a call of _rate_limit, and an HTTP request
Acquire == [op |-> "acquire", what |-> ""]
Http(what) == [op |-> "http", what |-> what]

\* what the enrichment of an entry puts on the wire: the download of the
\* article (line 151) and, after a raise, _fetch_with_requests (lines 166,
\* 464, 475)
EnrichmentWire(x) ==
    <<Http("article")>> \o (IF x.raised THEN <<Acquire, Http("scrape")>> ELSE << >>)

\* lines 122-131: _rate_limit, feedparser.parse, and the return on a feed
\* without entries
parse_feed ==
    /\ rss.done
    /\ \E feed \in Feeds :
           rss' = [entries |-> feed, k |-> 1, articles |-> << >>, done |-> feed = << >>,
                   wire |-> <<Acquire, Http("feed")>>, fetched |-> << >>]
    /\ UNCHANGED <<news_sources, posts, posting_logs, now, run, session, budget, sweep,
                   classified, health, limiter, handled, page, threads>>

\* variant: an enrichment that raises ends the loop without a candidate
fetch_from_rss_aborts ==
    /\ ~rss.done
    /\ LET e == rss.entries[rss.k]
           last == rss.k >= Len(rss.entries) \/ rss.k >= FeedLimit
       IN  IF Relevant[e]
           THEN \E x \in Enrichments :
                    rss' = IF x.raised
                           THEN [rss EXCEPT !.wire = @ \o EnrichmentWire(x), !.done = TRUE]
                           ELSE [rss EXCEPT !.articles = Append(@, Candidate(e, x)),
                                            !.wire = @ \o EnrichmentWire(x),
                                            !.fetched = Append(@, x),
                                            !.k = @ + 1, !.done = last]
           ELSE rss' = [rss EXCEPT !.k = @ + 1, !.done = last]
    /\ UNCHANGED <<news_sources, posts, posting_logs, now, run, session, budget, sweep,
                   classified, health, limiter, handled, page, threads>>

\* lines 133-173: one pass of the loop over feed.entries[:10]
fetch_from_rss ==
    /\ ~rss.done
    /\ LET e == rss.entries[rss.k]
           last == rss.k >= Len(rss.entries) \/ rss.k >= FeedLimit
       IN  IF Relevant[e]
           THEN \E x \in Enrichments :
                    rss' = [rss EXCEPT !.articles = Append(@, Candidate(e, x)),
                                       !.wire = @ \o EnrichmentWire(x),
                                       !.fetched = Append(@, x),
                                       !.k = @ + 1, !.done = last]
           ELSE rss' = [rss EXCEPT !.k = @ + 1, !.done = last]
    /\ UNCHANGED <<news_sources, posts, posting_logs, now, run, session, budget, sweep,
                   classified, health, limiter, handled, page, threads>>

InitFeed ==
    /\ InitTables
    /\ posting_logs = EmptyBag
    /\ budget = [ticks |-> 0, runs |-> 0, toggles |-> 0, sweeps |-> 0]

NextFeed == parse_feed \/ fetch_from_rss

SpecFeed == InitFeed /\ [][NextFeed]_vars

\* the entries of a list that the classifier accepts, in order
RECURSIVE Accepted(_)
Accepted(entries) ==
    IF entries = << >> THEN << >>
    ELSE (IF Relevant[Head(entries)] THEN <<Head(entries)>> ELSE << >>)
             \o Accepted(Tail(entries))

FirstTen(entries) == SubSeq(entries, 1, IF Len(entries) < 10 THEN Len(entries) ELSE 10)

\* the general part of C10: when the call is over, its result has one
\* candidate for each accepted entry among the first 10, in feed order, and
\* nothing else
FeedOrderFiltered ==
    rss.done =>
        LET want == Accepted(FirstTen(rss.entries))
        IN  /\ Len(rss.articles) = Len(want)
            /\ \A k \in 1..Len(want) :
                   /\ rss.articles[k].title = want[k].title
                   /\ rss.articles[k].url = want[k].link

\* C10: the Feed Extractor returns exactly one candidate per relevant entry
\* among the first 10 entries, in feed order, and none for other entries; in
\* particular the feed whose three titles contain "trucking", "FMCSA" and
\* "local bakery opens" yields exactly 2 candidates.
C10_FeedExtractor ==
    /\ FeedOrderFiltered
    /\ ( /\ rss.done
         /\ Len(rss.entries) = 3
         /\ Contains(Lower(rss.entries[1].title), "trucking")
         /\ Contains(rss.entries[2].title, "FMCSA")
         /\ Contains(Lower(rss.entries[3].title), "local bakery opens") )
       => Len(rss.articles) = 2

(***************************************************************************)
(* The Relevance Classifier on its own                                     *)
(***************************************************************************)
\* a text of the model is made of at most this many words
MaxWords == 2

Words ==
    { "", "FMCSA", "fmcsa", "DOT", "CDL", "ELD", "Trucking", "freight",
      "federal", "market", "bakery", "transport" }

RECURSIVE Join(_)
Join(ws) == IF Len(ws) = 1 THEN ws[1] ELSE ws[1] \o " " \o Join(Tail(ws))

\* the arguments given to _is_trucking_related
Texts == {Join(ws) : ws \in UNION {[1..n -> Words] : n \in 1..MaxWords}}

\* _is_trucking_related on the texts of the model, computed once
RelevanceOf == [text \in Texts |-> is_trucking_related(text)]

\* a call of _is_trucking_related
classify ==
    /\ \E text \in Texts :
           classified' = [text |-> text, called |-> TRUE, relevant |-> RelevanceOf[text]]
    /\ UNCHANGED <<news_sources, posts, posting_logs, now, run, session, budget, sweep, rss,
                   health, limiter, handled, page, threads>>

InitClassify ==
    /\ InitTables
    /\ posting_logs = EmptyBag
    /\ budget = [ticks |-> 0, runs |-> 0, toggles |-> 0, sweeps |-> 0]

NextClassify == classify

SpecClassify == InitClassify /\ [][NextClassify]_vars

\* does one of the terms occur in the text, letter case disregarded?
Occurs(text, terms) == \E term \in terms : Contains(Lower(text), Lower(term))

\* C11: a text in which a keyword of the vocabulary occurs, letter case
\* disregarded, is classified relevant.
C11_KeywordRelevant ==
    (classified.called /\ Occurs(classified.text, trucking_keywords))
        => classified.relevant

\* C12: the result is the OR of four signals, all matched without regard to
\* letter case: (a) a vocabulary keyword, (b) an industry term, (c) a
\* transportation term with a region indicator, (d) a transportation term
\* with a business term; so a region indicator or a business term without a
\* transportation term, keyword or industry term is not relevant.
C12_FourSignals ==
    classified.called =>
        LET T == classified.text
        IN  classified.relevant <=>
                \/ Occurs(T, trucking_keywords)
                \/ Occurs(T, industry_terms)
                \/ Occurs(T, transport_terms) /\ Occurs(T, usa_indicators)
                \/ Occurs(T, transport_terms) /\ Occurs(T, business_terms)

\* the four signals as the code matches them decide the result (this much of
\* C12 holds): keywords are looked for as written in the lower-cased text
FourSignalsAsWritten ==
    classified.called =>
        LET T == Lower(classified.text)
            has(terms) == \E term \in terms : Contains(T, term)
        IN  classified.relevant <=>
                \/ has(trucking_keywords)
                \/ has(industry_terms)
                \/ has(transport_terms) /\ has(usa_indicators)
                \/ has(transport_terms) /\ has(business_terms)

(***************************************************************************)
(* Properties of the Recovery Sweeper                                      *)
(***************************************************************************)
\* number of enable events for s in a log
EnableEvents(logs, s) ==
    LET hit == {e \in DOMAIN logs : e.action = "enable" /\ e.message = EnableMessage[s]}
    IN  BagCardinality([e \in hit |-> logs[e]])

\* C13: a sweep flips a disabled source to enabled exactly when it probed the
\* source and the probe raised nothing and found at least one entry (and the
\* sweep's commit went through; a failed commit rolls the whole sweep back);
\* each flip comes with exactly one enable event, a source whose probe failed
\* or found nothing stays disabled with no event, and no other step of the
\* core appends an enable event.
C13_Step ==
    \A s \in Sources :
        LET flipped == ~news_sources[s].enabled /\ news_sources'[s].enabled
            passed == /\ s \in sweep'.probed
                      /\ ~sweep'.feeds[s].raised
                      /\ sweep'.feeds[s].entries > 0
            added == EnableEvents(posting_logs', s) - EnableEvents(posting_logs, s)
        IN  IF sweep'.ran
            THEN /\ sweep'.committed => (flipped <=> passed)
                 /\ flipped => passed
                 /\ added = IF flipped THEN 1 ELSE 0
                 /\ news_sources[s].enabled => news_sources'[s].enabled
            ELSE added = 0

C13_SweeperFlip == [][C13_Step]_vars

\* a sweep has just re-enabled a source whose probe found an entry
C13_Witness ==
    /\ sweep.ran
    /\ sweep.committed
    /\ \E s \in sweep.probed :
           /\ ~sweep.feeds[s].raised
           /\ sweep.feeds[s].entries > 0
           /\ news_sources[s].enabled
           /\ EnableEvents(posting_logs, s) = 1

(***************************************************************************)
(* Self-healing: the scheduler invokes the Orchestrator again and again,   *)
(* with time passing between the invocations                               *)
(***************************************************************************)
\* hours between two invocations
HealStep == 100
\* the clock advances this many times; later the stored stamps move back instead
MaxHealTicks == 2

\* a stored stamp, one HealStep further in the past.  The program reads
\* stamps only through their distance to the clock (line 697, line 628), and
\* from the horizon on every last_fetched kept at 0 is beyond the cooldown
SlideStamp(stamp) ==
    IF stamp = NoTime THEN NoTime
    ELSE IF stamp > HealStep THEN stamp - HealStep ELSE 0

\* the log, one HealStep further in the past; rows that fall out of the
\* 7-day window are seen by no query of the core and are left out
SlideLog(logs) ==
    LET keep == {e \in DOMAIN logs :
                    e.timestamp - HealStep > now - ErrorWindowDays * 24}
        moved == {[e EXCEPT !.timestamp = @ - HealStep] : e \in keep}
    IN  [r \in moved |-> logs[[r EXCEPT !.timestamp = @ + HealStep]]]

\* time passes between the end of a run and the next invocation
SchedulerTick ==
    /\ Idle
    /\ budget.runs = 0
    /\ budget' = [budget EXCEPT !.runs = 1]
    /\ IF now < MaxHealTicks * HealStep
       THEN /\ now' = now + HealStep
            /\ UNCHANGED <<news_sources, posting_logs>>
       ELSE /\ now' = now
            /\ news_sources' =
                   [s \in Sources |->
                       [news_sources[s] EXCEPT !.last_fetched = SlideStamp(@)]]
            /\ posting_logs' = SlideLog(posting_logs)
    /\ sweep' = NoSweep
    /\ UNCHANGED <<posts, run, session, rss, classified, health, limiter, handled, page, threads>>

\* the log holds connection errors of earlier runs on source 1
InitHeal ==
    /\ InitTables
    /\ posting_logs = SeedLog("Connection refused")
    /\ budget = [ticks |-> 0, runs |-> 1, toggles |-> 0, sweeps |-> 0]

fetch_attempt_down == fetch_attempt_with(TRUE)

NextHeal ==
    \/ fetch_latest_news({0}, SeqErrors)
    \/ fetch_attempt_down
    \/ commit_run
    \/ SchedulerTick

\* runs keep being invoked and time keeps passing
SpecHeal == InitHeal /\ [][NextHeal]_vars /\ WF_vars(NextHeal)

\* the sweep of the step just taken probed s
Probed(s) == sweep.ran /\ s \in sweep.probed

\* the sweep of the step just taken did not probe s, or the probe found an
\* entry and the sweep was committed
ProbeSucceeds(s) ==
    Probed(s) =>
        /\ ~sweep.feeds[s].raised
        /\ sweep.feeds[s].entries > 0
        /\ sweep.committed

\* what does hold: a disabled source that was fetched before is probed, as
\* long as a run finds another source enabled
HealsWhenFetchedBefore ==
    \A s \in Sources :
        ( /\ ~news_sources[s].enabled
          /\ news_sources[s].last_fetched # NoTime
          /\ \E o \in Sources : news_sources[o].enabled )
        ~> (Probed(s) \/ \A o \in Sources : ~news_sources[o].enabled)

\* C14: with runs invoked for ever and time passing, every source that was
\* auto-disabled is eventually probed by the sweeper, and it is eventually
\* enabled again if its probes succeed.
C14_SelfHealing ==
    \A s \in Sources :
        /\ (~news_sources[s].enabled) ~> Probed(s)
        /\ [](ProbeSucceeds(s)) => ((~news_sources[s].enabled) ~> news_sources[s].enabled)

\* C15: a source that the sweep of a run re-enabled has had an extraction
\* attempt in that run when the run's loop over the sources is over.
C15_ReenabledFetchedSameRun ==
    Sched.pc \in {"save", "commit", "fallback"}
    => \A s \in Sched.reenabled : Sched.attempts[s] >= 1

(***************************************************************************)
(* Properties of the persistence fallback                                  *)
(***************************************************************************)
\* the record _save_single_article stores for an article
PendingRecord(a) ==
    [title |-> a.title, url |-> a.url, source |-> a.source, status |-> "pending"]

Stored(title) == \E k \in 1..Len(posts) : posts[k].title = title

\* C16: a failed batch commit stores nothing and starts the fallback at the
\* first collected article; the fallback takes the articles one at a time,
\* each exactly once, and every candidate the batch accepted is among them;
\* an article is stored as a pending record when its own commit succeeds,
\* dropped when its title is stored already, and when its save fails
\* nothing is stored and the fallback goes on with the next article.
C16_Step ==
    LET rn == run["sched"]
        rn2 == run'["sched"]
    IN  /\ (rn.pc = "commit" /\ rn.articles # << >>) =>
              \/ rn2.pc = "idle" /\ posts' = posts \o session["sched"].new_posts
              \/ /\ rn2.pc = "fallback"
                 /\ rn2.j = 1
                 /\ rn2.articles = rn.articles
                 /\ posts' = posts
                 /\ \A k \in 1..Len(rn.saved_articles) :
                        \E m \in 1..Len(rn.articles) : rn.articles[m] = rn.saved_articles[k]
        /\ rn.pc = "fallback" =>
              LET a == rn.articles[rn.j]
              IN  /\ IF rn.j < Len(rn.articles)
                     THEN rn2.pc = "fallback" /\ rn2.j = rn.j + 1 /\ rn2.articles = rn.articles
                     ELSE rn2.pc = "idle"
                  /\ \/ posts' = posts
                     \/ ~Stored(a.title) /\ posts' = Append(posts, PendingRecord(a))

C16_FallbackPerItem == [][C16_Step]_vars

\* in the fallback, the save of the first article failed and the second
\* article was stored all the same; a third one is still to come
C16_Witness ==
    /\ Sched.pc = "fallback"
    /\ Sched.j = 3
    /\ ~Stored(Sched.articles[1].title) \/ Sched.articles[1].title = Sched.articles[2].title
    /\ \A k \in 1..Len(posts) : posts[k].url # Sched.articles[1].url
    /\ \E k \in 1..Len(posts) : posts[k] = PendingRecord(Sched.articles[2])

(***************************************************************************)
(* Properties of the disable decision                                      *)
(***************************************************************************)
\* number of disable events for s in a log
DisableEvents(logs, s) ==
    LET hit == {e \in DOMAIN logs :
                   e.action = "disable" /\ \E k \in ErrorKinds : e.message = DisableMessage[s][k]}
    IN  BagCardinality([e \in hit |-> logs[e]])

\* C17: in the session of a run the enabled flag of a source goes from true
\* to false exactly in the steps that add one disable event naming the source
\* and the kind of the error, and the commit of the run brings flag and event
\* to the tables together: no flip without its event, no event without a flip.
C17_Step ==
    \A s \in Sources :
        /\ (InSession /\ run'["sched"].pc \in {"fetch", "save", "commit"}) =>
              LET added == DisableEvents(session'["sched"].new_logs, s)
                               - DisableEvents(session["sched"].new_logs, s)
                  flipped == /\ session["sched"].rows[s].enabled
                             /\ ~session'["sched"].rows[s].enabled
              IN  /\ added = IF flipped THEN 1 ELSE 0
                  /\ flipped =>
                        /\ run'["sched"].error_info.source_name = SourceName[s]
                        /\ DisableRow(s, run'["sched"].error_info.error_type, now)
                               \in DOMAIN session'["sched"].new_logs
        /\ LET added == DisableEvents(posting_logs', s) - DisableEvents(posting_logs, s)
               flipped == news_sources[s].enabled /\ ~news_sources'[s].enabled
           IN  added = IF flipped THEN 1 ELSE 0

C17_DisableWithEvent == [][C17_Step]_vars

\* a run has disabled source 1 and committed: the log holds the one event
C17_Witness ==
    /\ Sched.pc = "idle"
    /\ ~news_sources[1].enabled
    /\ DisableEvents(posting_logs, 1) = 1

(***************************************************************************)
(* The health report: _get_source_health_status                            *)
(***************************************************************************)
MaxReportErrors == 11   \* error rows per source in the seeded log
ReportStep      == 12   \* hours added by one advance of the clock
MaxReportTicks  == 2    \* advances of the clock after the first

StatusWindowHours == 24
WarningLimit      == 5
RatePenalty       == 10

\* variant: the critical bucket starts one error later
StatusOfLate(count) ==
    IF count = 0 THEN "healthy"
    ELSE IF count <= WarningLimit THEN "warning" ELSE "critical"

\* the conditional expression of line 672
StatusOf(count) ==
    IF count = 0 THEN "healthy"
    ELSE IF count < WarningLimit THEN "warning" ELSE "critical"

Max(a, b) == IF a > b THEN a ELSE b

\* lines 661-663
SuccessRate(total, count) ==
    IF total > 0 THEN Max(0, 100 - count * RatePenalty) ELSE 100

\* lines 665-673: the entry of a source whose count was read
HealthEntry(s, t) ==
    LET count == recent_errors(posting_logs, s, StatusWindowHours, t)
        row == news_sources[s]
    IN  [name |-> SourceName[s],
         enabled |-> row.enabled,
         last_fetched |-> row.last_fetched,
         total_articles |-> row.total_articles_fetched,
         recent_errors |-> count,
         success_rate |-> SuccessRate(row.total_articles_fetched, count),
         status |-> StatusOf(count)]

\* lines 675-682: the entry of a source whose count query raised
UnknownEntry(s) ==
    [name |-> SourceName[s], enabled |-> news_sources[s].enabled,
     status |-> "unknown", error |-> "query failed"]

\* _get_source_health_status: one entry per source, in the order of the table;
\* raised is the set of sources whose count query raises
get_source_health_status ==
    /\ \E raised \in SUBSET Sources :
           health' = [called |-> TRUE, at |-> now,
                      data |-> [s \in Sources |->
                                   IF s \in raised THEN UnknownEntry(s)
                                   ELSE HealthEntry(s, now)]]
    /\ UNCHANGED <<news_sources, posts, posting_logs, now, run, session, budget, sweep, rss,
                   classified, limiter, handled, page, threads>>

\* the clock advances between two reports
ReportTick ==
    /\ now < ReportStep * (MaxReportTicks + 1)
    /\ now' = now + ReportStep
    /\ UNCHANGED <<news_sources, posts, posting_logs, run, session, budget, sweep, rss,
                   classified, health, limiter, handled, page, threads>>

\* n error rows of source s written at time t by failed first attempts
ErrorRows(s, n, t) ==
    IF n = 0 THEN EmptyBag
    ELSE [e \in {ErrorRow(s, "Connection refused", 1, t)} |-> n]

\* the tables after earlier runs: error rows of source 1 written at hour 0,
\* of source 2 at hour ReportStep, and sources with or without stored articles
InitHealth ==
    /\ \E n1, n2 \in 0..MaxReportErrors :
           posting_logs = ErrorRows(1, n1, 0) (+) ErrorRows(2, n2, ReportStep)
    /\ \E total \in [Sources -> {0, 3}] :
           news_sources = [s \in Sources |->
               [enabled |-> TRUE,
                last_fetched |-> IF total[s] = 0 THEN NoTime ELSE 0,
                total_articles_fetched |-> total[s]]]
    /\ posts = << >>
    /\ now = ReportStep
    /\ run = [r \in Runners |-> IdleRun]
    /\ session = [r \in Runners |-> NoSession]
    /\ sweep = NoSweep
    /\ rss = NoFeedCall
    /\ classified = NoClassification
    /\ health = NoReport
    /\ limiter = NewLimiter
    /\ handled = NotHandled
    /\ page = NoPageCall
    /\ threads = NoCalls
    /\ budget = [ticks |-> 0, runs |-> 0, toggles |-> 0, sweeps |-> 0]

NextHealth == get_source_health_status \/ ReportTick

SpecHealth == InitHealth /\ [][NextHealth]_vars

(***************************************************************************)
(* Properties of the health report                                         *)
(* (the log does not change under SpecHealth, so the count the report read *)
(* is the count of the present log at the time the report was taken)       *)
(***************************************************************************)
HasCount(e) == "recent_errors" \in DOMAIN e

\* the bucket the claim gives to a count
Bucket(e, count) ==
    /\ count = 0 => e.status = "healthy"
    /\ (count >= 1 /\ count <= 4) => e.status = "warning"
    /\ count >= 5 => e.status = "critical"

C19_SuccessRate ==
    health.called =>
        \A s \in Sources :
            LET e == health.data[s]
            IN  HasCount(e) =>
                    e.success_rate = Max(0, 100 - 10 * e.recent_errors)

(***************************************************************************)
(* The rate limiter: _rate_limit, called by _fetch_from_rss (line 122),    *)
(* _fetch_from_website (line 189) and _fetch_with_requests (line 464) of   *)
(* the one fetcher of a run                                                *)
(***************************************************************************)
MaxClock   == 12   \* the clock stops advancing here
MaxOversleep == 1  \* seconds time.sleep may last longer than asked

\* lines 521-525: read the clock and decide whether to sleep; s is the
\* source the caller fetches for
rate_limit_enter ==
    /\ limiter.pc = "out"
    /\ \E s \in Sources :
           LET current_time == limiter.clock
               time_since_last == current_time - limiter.last_request_time
           IN  limiter' =
                   IF time_since_last < min_delay_between_requests
                   THEN [limiter EXCEPT !.pc = "sleep", !.caller = s,
                                        !.current_time = current_time,
                                        !.sleep_time = min_delay_between_requests
                                                           - time_since_last,
                                        !.slept = TRUE]
                   ELSE [limiter EXCEPT !.pc = "stamp", !.caller = s,
                                        !.current_time = current_time,
                                        !.sleep_time = 0, !.slept = FALSE]
    /\ UNCHANGED <<news_sources, posts, posting_logs, now, run, session, budget, sweep, rss,
                   classified, health, handled, page, threads>>

\* line 526: time.sleep(sleep_time) is called
rate_limit_sleep ==
    /\ limiter.pc = "sleep"
    /\ limiter' = [limiter EXCEPT !.pc = "asleep",
                                  !.wake = limiter.clock + limiter.sleep_time]
    /\ UNCHANGED <<news_sources, posts, posting_logs, now, run, session, budget, sweep, rss,
                   classified, health, handled, page, threads>>

\* line 526: time.sleep returns, not before the time asked for has passed
rate_limit_wake ==
    /\ limiter.pc = "asleep"
    /\ limiter.clock >= limiter.wake
    /\ limiter' = [limiter EXCEPT !.pc = "stamp"]
    /\ UNCHANGED <<news_sources, posts, posting_logs, now, run, session, budget, sweep, rss,
                   classified, health, handled, page, threads>>

\* the two latest returns of _rate_limit
Returned(returns, at, s, slept) ==
    LET r == [at |-> at, caller |-> s, slept |-> slept]
    IN  IF returns = << >> THEN <<r>> ELSE <<returns[Len(returns)], r>>

\* variant: the time read before the sleep is stored
rate_limit_stamp_early ==
    /\ limiter.pc = "stamp"
    /\ limiter' = [limiter EXCEPT !.pc = "out",
                                  !.last_request_time = limiter.current_time,
                                  !.returns = Returned(@, limiter.clock, limiter.caller,
                                                       limiter.slept)]
    /\ UNCHANGED <<news_sources, posts, posting_logs, now, run, session, budget, sweep, rss,
                   classified, health, handled, page, threads>>

\* line 527 and the return
rate_limit_stamp ==
    /\ limiter.pc = "stamp"
    /\ limiter' = [limiter EXCEPT !.pc = "out",
                                  !.last_request_time = limiter.clock,
                                  !.returns = Returned(@, limiter.clock, limiter.caller,
                                                       limiter.slept)]
    /\ UNCHANGED <<news_sources, posts, posting_logs, now, run, session, budget, sweep, rss,
                   classified, health, handled, page, threads>>

\* a second passes: the request and the work between two calls, or sleeping
Elapse ==
    /\ limiter.clock < MaxClock
    /\ limiter.pc = "asleep" => limiter.clock < limiter.wake + MaxOversleep
    /\ limiter' = [limiter EXCEPT !.clock = @ + 1]
    /\ UNCHANGED <<news_sources, posts, posting_logs, now, run, session, budget, sweep, rss,
                   classified, health, handled, page, threads>>

InitLimiter ==
    /\ InitTables
    /\ posting_logs = EmptyBag
    /\ budget = [ticks |-> 0, runs |-> 0, toggles |-> 0, sweeps |-> 0]

NextLimiter ==
    \/ rate_limit_enter
    \/ rate_limit_sleep
    \/ rate_limit_wake
    \/ rate_limit_stamp
    \/ Elapse

SpecLimiter == InitLimiter /\ [][NextLimiter]_vars

(***************************************************************************)
(* Properties of the rate limiter                                          *)
(***************************************************************************)
\* two consecutive returns are at least the minimum delay apart
ReturnsApart ==
    Len(limiter.returns) = 2 =>
        limiter.returns[2].at - limiter.returns[1].at >= min_delay_between_requests

\* a call that finds the minimum delay elapsed goes on without sleeping, and
\* a step of the limiter changes last_request_time only when it returns and
\* changes no table
LimiterStep ==
    /\ (limiter.pc = "out" /\ limiter'.pc # "out"
           /\ limiter.clock - limiter.last_request_time >= min_delay_between_requests)
          => limiter'.pc = "stamp" /\ ~limiter'.slept
    /\ limiter'.last_request_time # limiter.last_request_time
          => /\ limiter.pc = "stamp" /\ limiter'.pc = "out"
             /\ limiter'.last_request_time = limiter'.returns[Len(limiter'.returns)].at
    /\ limiter' # limiter
          => UNCHANGED <<news_sources, posts, posting_logs, run, session>>

\* C20: in the calls one fetcher makes one after the other, two consecutive
\* returns of _rate_limit are at least min_delay_between_requests (2 s) apart
\* whichever sources they are made for; a call that finds the delay elapsed
\* does not sleep; and a call changes nothing but last_request_time.
C20_RateLimit == []ReturnsApart /\ [][LimiterStep]_vars

\* a call for source 2 slept and returned 2 s after the return of a call for
\* source 1, and before it a call had found the delay elapsed and not slept
C20_Witness ==
    /\ Len(limiter.returns) = 2
    /\ limiter.returns[1].caller = 1 /\ ~limiter.returns[1].slept
    /\ limiter.returns[2].caller = 2 /\ limiter.returns[2].slept
    /\ limiter.returns[2].at - limiter.returns[1].at = min_delay_between_requests

(***************************************************************************)
(* Properties of the extractors' use of the network                        *)
(***************************************************************************)
\* C21: every HTTP request an extractor issues (the feed, the root page, the
\* download of an article, the fallback scrape) comes right after a call of
\* _rate_limit of its own, so no two requests follow each other without one.
C21_AcquireBeforeHttp ==
    \A k \in 1..Len(rss.wire) :
        rss.wire[k].op = "http" => k > 1 /\ rss.wire[k - 1].op = "acquire"

\* C28: when the call is over there is one candidate for every accepted entry
\* among the first 10, whatever the enrichments did; the candidate of an entry
\* whose enrichment raised has the text of the fallback scrape when the scrape
\* gave one, and the summary of the feed otherwise.
C28_EnrichmentFailureDegrades ==
    rss.done =>
        LET want == Accepted(FirstTen(rss.entries))
        IN  /\ Len(rss.articles) = Len(want)
            /\ Len(rss.fetched) = Len(want)
            /\ \A k \in 1..Len(want) :
                   /\ rss.articles[k].title = want[k].title
                   /\ rss.fetched[k].raised =>
                          rss.articles[k].content =
                              IF rss.fetched[k].alt_content # ""
                              THEN rss.fetched[k].alt_content
                              ELSE want[k].summary

\* a call is over in which the enrichment of the first accepted entry raised
\* and its scrape gave nothing, and the entry after it has its candidate too
C28_Witness ==
    /\ rss.done
    /\ Len(rss.articles) = 2
    /\ rss.fetched[1].raised /\ rss.fetched[1].alt_content = ""
    /\ rss.articles[1].content = "Freight market slows"
    /\ rss.fetched[2].raised /\ rss.articles[2].content = "alt text"

(***************************************************************************)
(* Runs on a table posts that already holds a record the poster has        *)
(* handled (models.py line 92: pending, posted, failed, skipped)           *)
(***************************************************************************)
HandledStatuses == {"posted", "failed", "skipped"}

InitStatus ==
    /\ news_sources = [s \in Sources |->
          [enabled |-> TRUE, last_fetched |-> NoTime, total_articles_fetched |-> 0]]
    /\ \E st \in HandledStatuses :
           posts = <<[title |-> "New CDL rule", url |-> "u0", source |-> SourceName[1],
                      status |-> st]>>
    /\ posting_logs = EmptyBag
    /\ now = 0
    /\ run = [r \in Runners |-> IdleRun]
    /\ session = [r \in Runners |-> NoSession]
    /\ sweep = NoSweep
    /\ rss = NoFeedCall
    /\ classified = NoClassification
    /\ health = NoReport
    /\ limiter = NewLimiter
    /\ handled = NotHandled
    /\ page = NoPageCall
    /\ threads = NoCalls
    /\ budget = [ticks |-> 0, runs |-> 1, toggles |-> 0, sweeps |-> 0]

SpecStatus == InitStatus /\ [][Next]_vars

\* C22: every record the fetch engine adds to posts, in the batch of a run or
\* one by one after a failed commit, is added with status pending, and no step
\* of the engine changes the status of a record that is already there.
C22_Step ==
    /\ Len(posts') >= Len(posts)
    /\ \A k \in 1..Len(posts) :
           posts'[k].title = posts[k].title /\ posts'[k].status = posts[k].status
    /\ \A k \in (Len(posts) + 1)..Len(posts') : posts'[k].status = "pending"
    /\ \A r \in Runners : \A k \in 1..Len(session'[r].new_posts) :
           session'[r].new_posts[k].status = "pending"

C22_PendingOnly == [][C22_Step]_vars

\* a run has stored a record next to the one the poster had handled
C22_Witness ==
    /\ Sched.pc = "idle"
    /\ Len(posts) = 2
    /\ posts[1].status \in HandledStatuses
    /\ posts[2].title = "Freight rates rise" /\ posts[2].status = "pending"

(***************************************************************************)
(* The Error Classifier on texts of its own: _handle_fetch_error            *)
(***************************************************************************)
ErrorWords ==
    { "", "403", "Forbidden", "forbidden", "404", "Not Found", "not found",
      "Timeout", "timed out", "Connection", "refused", "boom" }

\* the texts of the exceptions given to _handle_fetch_error
ErrorTexts == {Join(ws) : ws \in UNION {[1..n -> ErrorWords] : n \in 1..MaxWords}}

\* error_type on the texts, computed once
ErrorTypeOf == [text \in ErrorTexts |-> error_type(text)]

\* a call of _handle_fetch_error with one of the texts for one of the
\* sources: the classification, the row given to _log_action, the result
handle_fetch_error_on(texts, srcs) ==
    \E text \in texts, s \in srcs, attempt \in 1..(max_retries + 1) :
           LET message == error_message(SourceName[s], text)
               info == [error_type    |-> ErrorTypeOf[text],
                        error_message |-> message,
                        source_name   |-> SourceName[s],
                        attempt       |-> attempt]
               row == LogRow("error",
                             "Fetch attempt " \o ToString(attempt) \o " failed for "
                                 \o SourceName[s] \o ": " \o message, now)
           IN  /\ handled' = [called |-> TRUE, text |-> text, source |-> s, info |-> info]
               /\ session' = [session EXCEPT !["sched"].new_logs = @ (+) SetToBag({row})]

\* the call on the first raise of a run
handle_fetch_error_step ==
    /\ ~handled.called
    /\ handle_fetch_error_on(ErrorTexts, Sources)
    /\ UNCHANGED <<news_sources, posts, posting_logs, now, run, budget, sweep, rss,
                   classified, health, limiter, page, threads>>

InitErrors ==
    /\ InitTables
    /\ posting_logs = EmptyBag
    /\ budget = [ticks |-> 0, runs |-> 0, toggles |-> 0, sweeps |-> 0]

NextErrors == handle_fetch_error_step

SpecErrors == InitErrors /\ [][NextErrors]_vars

\* C23: every call of _handle_fetch_error returns one kind out of
\* access_denied, not_found, timeout, connection_error and unknown: a text
\* with '403' or 'Forbidden' gives access_denied; otherwise one with '404' or
\* 'Not Found' gives not_found; otherwise one with 'timeout' or 'timed out' in
\* any case gives timeout; otherwise one with 'connection' or 'refused' in any
\* case gives connection_error; otherwise the kind is unknown.
C23_ClassifyTotal ==
    handled.called =>
        LET t == handled.text
            k == handled.info.error_type
            denied == Contains(t, "403") \/ Contains(t, "Forbidden")
            missing == Contains(t, "404") \/ Contains(t, "Not Found")
            slow == Contains(Lower(t), "timeout") \/ Contains(Lower(t), "timed out")
            down == Contains(Lower(t), "connection") \/ Contains(Lower(t), "refused")
        IN  /\ k \in {"access_denied", "not_found", "timeout", "connection_error", "unknown"}
            /\ denied => k = "access_denied"
            /\ (~denied /\ missing) => k = "not_found"
            /\ (~denied /\ ~missing /\ slow) => k = "timeout"
            /\ (~denied /\ ~missing /\ ~slow /\ down) => k = "connection_error"
            /\ (~denied /\ ~missing /\ ~slow /\ ~down) => k = "unknown"

\* a text with 'forbidden' in lower case and 'Timeout' capitalised is a timeout
C23_Witness ==
    /\ handled.called
    /\ handled.text = "forbidden Timeout"
    /\ handled.info.error_type = "timeout"

(***************************************************************************)
(* Sweeps one after the other on a registry that earlier runs and toggles  *)
(* have left                                                               *)
(***************************************************************************)
SweepsInRow == 2

InitSweep ==
    /\ news_sources \in [Sources ->
           [enabled : BOOLEAN, last_fetched : {NoTime, 0}, total_articles_fetched : {0}]]
    /\ posts = << >>
    /\ posting_logs = EmptyBag
    /\ now \in {24, 25}
    /\ run = [r \in Runners |-> IdleRun]
    /\ session = [r \in Runners |-> NoSession]
    /\ sweep = NoSweep
    /\ rss = NoFeedCall
    /\ classified = NoClassification
    /\ health = NoReport
    /\ limiter = NewLimiter
    /\ handled = NotHandled
    /\ page = NoPageCall
    /\ threads = NoCalls
    /\ budget = [ticks |-> 0, runs |-> 0, toggles |-> 0, sweeps |-> SweepsInRow]

NextSweep == Sweep

SpecSweep == InitSweep /\ [][NextSweep]_vars

\* the probes of this sweep found what the probes of the sweep before found,
\* and its commit went the same way
SameOutcomes(before, after) ==
    /\ after.committed = before.committed
    /\ \A s \in DOMAIN after.feeds :
           s \in DOMAIN before.feeds /\ after.feeds[s] = before.feeds[s]

\* C24: a sweep that follows a sweep at the same clock, with the same probe
\* outcomes (and the same outcome of its commit), leaves the registry as the
\* first sweep left it (enabled flags, last_fetched, counts) and adds no
\* enable event.
C24_Step ==
    (sweep.ran /\ sweep'.ran /\ now' = now /\ SameOutcomes(sweep, sweep'))
        => /\ news_sources' = news_sources
           /\ \A s \in Sources :
                  EnableEvents(posting_logs', s) = EnableEvents(posting_logs, s)

C24_SweepIdempotent == [][C24_Step]_vars

\* a second sweep has probed again a source that the first had found still
\* failing, after the first had re-enabled the other source
C24_Witness ==
    /\ sweep.ran /\ sweep.committed /\ sweep.flipped = {}
    /\ sweep.prior.ran /\ sweep.prior.committed /\ sweep.prior.flipped = {1}
    /\ DOMAIN sweep.feeds = {2}
    /\ sweep.feeds[2] = sweep.prior.feeds[2]
    /\ news_sources[1].enabled /\ ~news_sources[2].enabled
    /\ EnableEvents(posting_logs, 1) = 1

\* C25: every invocation of fetch_latest_news runs the sweeper before its loop
\* over the sources, also the invocation that reads an empty list of enabled
\* sources.  (Under SpecHeal the invocations are the steps that use up a run.)
C25_Step == budget'.runs < budget.runs => sweep'.ran

C25_SweepInEveryRun == [][C25_Step]_vars

(***************************************************************************)
(* Properties of the error count of the disable decision                   *)
(***************************************************************************)
\* the run has just considered disabling s and left it enabled: the log is
\* the log the count was taken on
JustConsidered(s) ==
    /\ InSession
    /\ Sched.final_error[s] \in PersistentKinds
    /\ ~DisableLogged(s)
    /\ \A o \in Sources : o > s => Sched.attempts[o] = 0

\* C26: the count the disable decision takes for a source is the number of
\* error events logged for failed attempts on that source in the trailing 7
\* days, of whatever kind, and of no other source.
C26_CountIsOwnErrors ==
    \A s \in Sources :
        JustConsidered(s) =>
            recent_errors(posting_logs (+) session["sched"].new_logs, s,
                          ErrorWindowDays * 24, now)
                = LoggedErrors(s, "access_denied") + LoggedErrors(s, "not_found")
                    + LoggedErrors(s, "timeout") + LoggedErrors(s, "connection_error")
                    + LoggedErrors(s, "unknown")

\* C27: an attempt on a feed source that retrieves a feed with entries of
\* which the classifier accepts none is a successful attempt: the run makes no
\* further attempt on the source, does not sleep for it, and stamps its
\* last_fetched.
C27_FilteredFeedIsSuccess ==
    InSession =>
        \A s \in Sched.filtered :
            SourceType[s] = "rss" =>
                /\ Sched.attempts[s] = 1
                /\ Sched.sleeps[s] = 0
                /\ session["sched"].rows[s].last_fetched = now

(***************************************************************************)
(* Page Extractor: _fetch_from_website, and the except clause of           *)
(* fetch_latest_news that receives what it raises                          *)
(***************************************************************************)
\* a page of the model has at most this many freely chosen links, ...
MaxShortPage == 2
\* ... or is a long one of this many links
MaxPageLen == 21
\* root pages that fail in one behaviour
MaxRootFailures == 1

\* links[:20]
PageLimit == 20
\* len(link_text) > 10
MinLinkText == 10

PageSource == 2
SourceUrl == "https://fleet.example/"

StartsWith(t, p) == Len(t) >= Len(p) /\ SubSeq(t, 1, Len(p)) = p

\* str.rstrip('/')
RECURSIVE RStripSlash(_)
RStripSlash(u) ==
    IF Len(u) > 0 /\ SubSeq(u, Len(u), Len(u)) = "/"
    THEN RStripSlash(SubSeq(u, 1, Len(u) - 1)) ELSE u

\* str.strip() on the blanks of the texts of the model
RECURSIVE Strip(_)
Strip(t) ==
    IF Len(t) > 0 /\ SubSeq(t, 1, 1) = " " THEN Strip(SubSeq(t, 2, Len(t)))
    ELSE IF Len(t) > 0 /\ SubSeq(t, Len(t), Len(t)) = " "
         THEN Strip(SubSeq(t, 1, Len(t) - 1))
    ELSE t

PageLink(href, text) == [href |-> href, text |-> text]

PageLinks ==
    { PageLink("/news/rates", "Trucking rates climb"),
      PageLink("https://fleet.example/freight", " Freight market slows "),
      PageLink("mailto:news@fleet.example", "Trucking newsletter signup"),
      PageLink("/about", "Local bakery opens"),
      PageLink("/fleet", "  Fleet news  "),
      PageLink("", "Trucking rates climb") }

\* lines 213-216: the absolute URL of a link that is kept
AbsoluteUrl(href) ==
    IF StartsWith(href, "/") THEN RStripSlash(SourceUrl) \o href ELSE href

\* lines 208-220: is the link followed?
Followed(link) ==
    /\ link.href # ""
    /\ StartsWith(link.href, "/") \/ StartsWith(link.href, "http")
    /\ is_trucking_related(Strip(link.text))
    /\ Len(Strip(link.text)) > MinLinkText

\* Followed on the links of the model, computed once
FollowedLink == [link \in PageLinks |-> Followed(link)]

LongPages ==
    { [k \in 1..MaxPageLen |->
          IF k = p THEN PageLink("/news/rates", "Trucking rates climb")
          ELSE PageLink("/about", "Local bakery opens")] : p \in PageLimit..MaxPageLen }

\* soup.find_all('a', href=True) of the root pages
Pages == UNION {[1..n -> PageLinks] : n \in 0..MaxShortPage} \cup LongPages

\* texts of the exceptions requests.get and raise_for_status raise on the root
RootErrors == {"403 Forbidden", "Connection refused"}

\* what newspaper (ok: title and text; partial: one of them missing; raised)
\* and the requests fallback give for a link
Extractions ==
    { [primary |-> "ok",      alt_content |-> ""],
      [primary |-> "partial", alt_content |-> ""],
      [primary |-> "partial", alt_content |-> "alt text"],
      [primary |-> "raised",  alt_content |-> ""],
      [primary |-> "raised",  alt_content |-> "alt text"] }

\* lines 229-270: is an article appended for the link?
Extracted(x) == x.primary = "ok" \/ x.alt_content # ""

\* lines 230-238, 245-253, 262-270: the article appended (the title of the
\* fallback is the text of the link, which is longer than 10 here)
PageCandidate(link, x) ==
    [ title   |-> IF x.primary = "ok" THEN "Title at " \o AbsoluteUrl(link.href)
                  ELSE Strip(link.text),
      url     |-> AbsoluteUrl(link.href),
      content |-> IF x.primary = "ok" THEN "full text" ELSE x.alt_content,
      source  |-> SourceName[PageSource] ]

\* what the extraction of a link puts on the wire
ExtractionWire(x) ==
    <<Http("article")>> \o (IF x.primary = "ok" THEN << >> ELSE <<Acquire, Http("scrape")>>)

\* lines 187-205 and 275-277: _rate_limit, the request of the root page, its
\* links; an exception of the request is raised to the caller
fetch_page_root ==
    /\ page.pc = "out"
    /\ \/ \E links \in Pages :
              page' = [pc |-> IF links = << >> THEN "out" ELSE "links",
                       links |-> links, k |-> 1, articles |-> << >>, raised |-> "",
                       wire |-> <<Acquire, Http("root")>>, tried |-> << >>]
       \/ /\ BagCardinality(session["sched"].new_logs) < MaxRootFailures
          /\ \E e \in RootErrors :
              page' = [pc |-> "raised",
                       links |-> << >>, k |-> 0, articles |-> << >>, raised |-> e,
                       wire |-> <<Acquire, Http("root")>>, tried |-> << >>]
    /\ UNCHANGED <<news_sources, posts, posting_logs, now, run, session, budget, sweep, rss,
                   classified, health, limiter, handled, threads>>

\* variant: a link whose extraction and scrape both fail ends the loop
fetch_from_website_breaks ==
    /\ page.pc = "links"
    /\ LET link == page.links[page.k]
           last == page.k >= Len(page.links) \/ page.k >= PageLimit
           next == IF last THEN "out" ELSE "links"
       IN  IF FollowedLink[link]
           THEN \E x \in Extractions :
                    page' = [page EXCEPT
                                !.articles = IF Extracted(x)
                                             THEN Append(@, PageCandidate(link, x)) ELSE @,
                                !.wire = @ \o ExtractionWire(x),
                                !.tried = Append(@, x),
                                !.k = @ + 1,
                                !.pc = IF Extracted(x) THEN next ELSE "out"]
           ELSE page' = [page EXCEPT !.k = @ + 1, !.pc = next]
    /\ UNCHANGED <<news_sources, posts, posting_logs, now, run, session, budget, sweep, rss,
                   classified, health, limiter, handled, threads>>

\* lines 207-273: one pass of the loop over links[:20]
fetch_from_website ==
    /\ page.pc = "links"
    /\ LET link == page.links[page.k]
           last == page.k >= Len(page.links) \/ page.k >= PageLimit
           next == IF last THEN "out" ELSE "links"
       IN  IF FollowedLink[link]
           THEN \E x \in Extractions :
                    page' = [page EXCEPT
                                !.articles = IF Extracted(x)
                                             THEN Append(@, PageCandidate(link, x)) ELSE @,
                                !.wire = @ \o ExtractionWire(x),
                                !.tried = Append(@, x),
                                !.k = @ + 1,
                                !.pc = next]
           ELSE page' = [page EXCEPT !.k = @ + 1, !.pc = next]
    /\ UNCHANGED <<news_sources, posts, posting_logs, now, run, session, budget, sweep, rss,
                   classified, health, limiter, handled, threads>>

\* fetch_latest_news lines 78-79: the exception of _fetch_from_website is
\* caught and given to _handle_fetch_error
except_clause ==
    /\ page.pc = "raised"
    /\ handle_fetch_error_on({page.raised}, {PageSource})
    /\ page' = [page EXCEPT !.pc = "out"]
    /\ UNCHANGED <<news_sources, posts, posting_logs, now, run, budget, sweep, rss,
                   classified, health, limiter, threads>>

InitPage ==
    /\ InitTables
    /\ posting_logs = EmptyBag
    /\ budget = [ticks |-> 0, runs |-> 0, toggles |-> 0, sweeps |-> 0]

NextPage == fetch_page_root \/ fetch_from_website \/ except_clause

SpecPage == InitPage /\ [][NextPage]_vars

\* the links of a list that are followed, in order
RECURSIVE FollowedOf(_)
FollowedOf(links) ==
    IF links = << >> THEN << >>
    ELSE (IF FollowedLink[Head(links)] THEN <<Head(links)>> ELSE << >>)
             \o FollowedOf(Tail(links))

FirstTwenty(links) == SubSeq(links, 1, IF Len(links) < 20 THEN Len(links) ELSE 20)

\* the extractions that gave an article, in order
RECURSIVE ExtractedOf(_, _)
ExtractedOf(links, tried) ==
    IF links = << >> \/ tried = << >> THEN << >>
    ELSE (IF Head(tried).primary = "ok" \/ Head(tried).alt_content # ""
          THEN <<Head(links)>> ELSE << >>)
             \o ExtractedOf(Tail(links), Tail(tried))

\* a call that did not raise is over: every followed link among the first 20
\* was tried, and the result has the articles of the links for which the
\* extraction or the scrape gave something, in order, and nothing else
LinksIsolated ==
    (page.pc = "out" /\ page.raised = "") =>
        LET want == FollowedOf(FirstTwenty(page.links))
            got == ExtractedOf(want, page.tried)
        IN  /\ Len(page.tried) = Len(want)
            /\ Len(page.articles) = Len(got)
            /\ \A k \in 1..Len(got) :
                   page.articles[k].url = AbsoluteUrl(got[k].href)

\* an exception of the root page leaves the call without a result
RootRaises == page.pc = "raised" => (page.articles = << >> /\ page.raised \in RootErrors)

\* the step after the raise is the call of _handle_fetch_error with the text
\* of the exception, for the source of the page
RootRouted ==
    page.pc = "raised" =>
        /\ handled'.called
        /\ handled'.text = page.raised
        /\ handled'.source = PageSource
        /\ handled'.info.error_type \in ErrorKinds
        /\ BagCardinality(session'["sched"].new_logs)
               = BagCardinality(session["sched"].new_logs) + 1

\* C29: in the Page Extractor a link whose extraction and fallback scrape
\* both fail is only left out, the other followed links among the first 20
\* are still processed; a failure of the root page is raised to
\* fetch_latest_news, which gives it to _handle_fetch_error.
C29_PageExtractor == [](LinksIsolated /\ RootRaises) /\ [][RootRouted]_vars

\* a call is over in which the extraction and the scrape of the first link
\* failed and the second link gave its article
C29_Witness ==
    /\ page.pc = "out" /\ page.raised = ""
    /\ Len(page.links) = 2
    /\ Len(page.tried) = 2
    /\ page.tried[1] = [primary |-> "raised", alt_content |-> ""]
    /\ page.tried[2].primary = "partial"
    /\ Len(page.articles) = 1
    /\ page.articles[1].url = "https://fleet.example/news/rates"
    /\ page.articles[1].title = "Trucking rates climb"

\* C30: the probe of the sweeper goes through the extraction that
\* fetch_latest_news uses for the type of the source: the Feed Extractor for
\* an rss source, the Page Extractor for any other.
C30_ProbeUsesFetchPath ==
    sweep.ran =>
        \A s \in sweep.probed : sweep.paths[s] = FetchPath(SourceType[s])

(***************************************************************************)
(* Properties of the sweeper against the manual toggle and the clock       *)
(***************************************************************************)
\* C31: a sweep re-enables only sources that the error tracker disabled.  The
\* tracker never disables a source without logging a disable event for it
\* (lines 634-640), and the log starts empty: a source that a sweep flips
\* back to enabled has a disable event in the log; one that was disabled
\* through the toggle route alone is never flipped.
C31_OnlyAutoDisabledRecovered ==
    sweep.ran =>
        \A s \in sweep.flipped : DisableEvents(posting_logs, s) > 0

\* runs the scheduler starts within the same hour
RunsInHour == 2
\* the hour of those runs; source 1 was last fetched at hour 0
AgedNow == 25

\* Source 1 delivered articles a day ago and has answered 403 or 404 since:
\* the log holds the error events of the runs in between
InitAged ==
    /\ news_sources = [s \in Sources |->
          [enabled |-> TRUE, last_fetched |-> IF s = 1 THEN 0 ELSE NoTime,
           total_articles_fetched |-> IF s = 1 THEN 1 ELSE 0]]
    /\ posts = << >>
    /\ posting_logs \in {SeedLog(e) : e \in RawErrors}
    /\ now = AgedNow
    /\ run = [r \in Runners |-> IdleRun]
    /\ session = [r \in Runners |-> NoSession]
    /\ sweep = NoSweep
    /\ rss = NoFeedCall
    /\ classified = NoClassification
    /\ health = NoReport
    /\ limiter = NewLimiter
    /\ handled = NotHandled
    /\ page = NoPageCall
    /\ threads = NoCalls
    /\ budget = [ticks |-> 0, runs |-> RunsInHour, toggles |-> 0, sweeps |-> 0]

NextAged ==
    \/ fetch_latest_news({0}, SeqErrors)
    \/ fetch_attempt
    \/ process_and_save_articles("sched")
    \/ commit_run
    \/ save_single_article

SpecAged == InitAged /\ [][NextAged]_vars

\* the timestamps of the disable events for s in a log
DisabledAt(logs, s) ==
    {e.timestamp : e \in {d \in DOMAIN logs :
        d.action = "disable" /\ \E k \in ErrorKinds : d.message = DisableMessage[s][k]}}

\* C32: a sweep sets enabled back to true only when at least 24 hours have
\* passed since the step that set it to false: every disable event the log
\* holds for a source the sweep flips is at least 24 hours old.
C32_DisabledForADay ==
    sweep.ran =>
        \A s \in sweep.flipped :
            \A t \in DisabledAt(posting_logs, s) : now - t >= 24

(***************************************************************************)
(* What the last attempt on a source leaves in the registry row            *)
(***************************************************************************)
\* the pass of the loop just taken was the last attempt of the run on s
LastAttemptOn(s) ==
    /\ Sched.pc = "fetch"
    /\ Sched.sources[Sched.i] = s
    /\ Sched.retry_count >= Sched.max_retries
    /\ run'["sched"].attempts[s] = Sched.attempts[s] + 1

\* the pass just taken raised: _handle_fetch_error added an error event
RaisedNow == session'["sched"].new_logs # session["sched"].new_logs

\* C33: when the last of the max_retries+1 attempts on a source returns an
\* empty list without raising, the row of the source gets last_fetched = the
\* time of that attempt and keeps its lifetime count and its enabled flag;
\* when the last attempt raises, last_fetched and the lifetime count stay as
\* they were.
C33_Step ==
    \A s \in Sources :
        LastAttemptOn(s) =>
            LET before == session["sched"].rows[s]
                after == session'["sched"].rows[s]
            IN  /\ (~RaisedNow /\ run'["sched"].source_articles = << >>) =>
                      /\ after.last_fetched = now
                      /\ after.total_articles_fetched = before.total_articles_fetched
                      /\ after.enabled = before.enabled
                /\ RaisedNow =>
                      /\ after.last_fetched = before.last_fetched
                      /\ after.total_articles_fetched = before.total_articles_fetched

C33_ExhaustedFrame == [][C33_Step]_vars

\* the loop is over: the three attempts on source 1 all returned nothing and
\* none raised, the third attempt on source 2 raised
C33_Witness ==
    /\ Sched.pc = "commit"
    /\ Sched.max_retries = 2
    /\ Sched.attempts = [s \in Sources |-> 3]
    /\ Sched.succeeded = {}
    /\ Sched.final_error[1] = "none" /\ Sched.final_error[2] # "none"
    /\ \A e \in DOMAIN session["sched"].new_logs :
           e.action = "error" =>
               \E a \in 1..3 : e.message = ErrorLogMessage[2][Sched.failure][a]
    /\ session["sched"].rows[1].last_fetched = now
    /\ session["sched"].rows[2].last_fetched = NoTime

(***************************************************************************)
(* What a run returns and what it leaves in the tables                     *)
(***************************************************************************)
\* the step just taken is the return of fetch_latest_news (line 114)
Returns == Sched.pc # "idle" /\ run'["sched"].pc = "idle"

\* the records a list of candidates is stored as
RecordsOf(articles) == {NewPost(articles[k]) : k \in 1..Len(articles)}

\* the records the run has committed: the table held none when it started
CommittedRecords(rows) == {rows[k] : k \in 1..Len(rows)}

\* C34: the list fetch_latest_news returns holds exactly the candidates whose
\* record the run created and committed, whether the batch commit went
\* through or the run fell back to saving the candidates one by one.
C34_Step ==
    Returns => RecordsOf(Sched.saved_articles) = CommittedRecords(posts')

C34_ReturnsWhatIsStored == [][C34_Step]_vars

\* C35: what a run decided is in the tables when it returns, whether its
\* batch commit went through or was rolled back: the error event of every
\* source it exhausted with a raise, last_fetched and the lifetime count of
\* every source it got articles from, and the cleared enabled flag with its
\* disable event of every source it auto-disabled.
C35_Step ==
    Returns =>
        \A s \in Sources :
            /\ Sched.final_error[s] # "none" =>
                   ErrorRow(s, Sched.failure, Sched.max_retries + 1, now)
                       \in DOMAIN posting_logs'
            /\ s \in Sched.succeeded =>
                   /\ news_sources'[s].last_fetched = now
                   /\ news_sources'[s].total_articles_fetched > 0
            /\ (Sched.pc = "commit" /\ ~session["sched"].rows[s].enabled) =>
                   /\ ~news_sources'[s].enabled
                   /\ DisableEvents(posting_logs', s) > 0

C35_DecisionsSurviveRollback == [][C35_Step]_vars

(***************************************************************************)
(* Two invocations at once: the lifetime count of a source                 *)
(***************************************************************************)
\* the number of articles the attempts of runner r got from source s
ArticlesFrom(r, s) ==
    Cardinality({k \in 1..Len(run[r].returned) :
                    run[r].returned[k].source = SourceName[s]})

\* the step just taken is the commit of runner r, and it went through
CommitsNow(r) ==
    /\ run[r].pc = "commit"
    /\ run'[r].pc = "idle"
    /\ <<news_sources', posts', posting_logs'>> # <<news_sources, posts, posting_logs>>

\* C36: when two invocations run at once and both get articles from the same
\* source, n1 by one and n2 by the other, the lifetime count of the source
\* ends n1 + n2 higher, however their steps interleave: the commit of each
\* invocation raises the count the table holds by the number of articles
\* that invocation got from the source.
C36_Step ==
    \A r \in Runners, s \in Sources :
        (CommitsNow(r) /\ s \in run[r].succeeded) =>
            news_sources'[s].total_articles_fetched =
                news_sources[s].total_articles_fetched + ArticlesFrom(r, s)

C36_CountsAddUp == [][C36_Step]_vars

(***************************************************************************)
(* Two threads in _rate_limit of the one NewsFetcher (app.py 247-251): the *)
(* scheduled job and the thread of the manual route (app.py 735-793)       *)
(***************************************************************************)
\* lines 521-525 in thread t: read the clock and last_request_time, decide
rate_limit_enter_in(t) ==
    /\ threads.calls[t].pc = "out"
    /\ LET current_time == limiter.clock
           time_since_last == current_time - limiter.last_request_time
       IN  threads' =
               IF time_since_last < min_delay_between_requests
               THEN [threads EXCEPT !.calls[t] =
                        [pc |-> "sleep", current_time |-> current_time,
                         sleep_time |-> min_delay_between_requests - time_since_last,
                         wake |-> 0]]
               ELSE [threads EXCEPT !.calls[t] =
                        [pc |-> "stamp", current_time |-> current_time,
                         sleep_time |-> 0, wake |-> 0]]
    /\ UNCHANGED <<news_sources, posts, posting_logs, now, run, session, budget, sweep, rss,
                   classified, health, limiter, handled, page>>

\* line 526 in thread t: time.sleep(sleep_time) is called
rate_limit_sleep_in(t) ==
    /\ threads.calls[t].pc = "sleep"
    /\ threads' = [threads EXCEPT !.calls[t].pc = "asleep",
                                  !.calls[t].wake = limiter.clock + threads.calls[t].sleep_time]
    /\ UNCHANGED <<news_sources, posts, posting_logs, now, run, session, budget, sweep, rss,
                   classified, health, limiter, handled, page>>

\* line 526 in thread t: time.sleep returns
rate_limit_wake_in(t) ==
    /\ threads.calls[t].pc = "asleep"
    /\ limiter.clock >= threads.calls[t].wake
    /\ threads' = [threads EXCEPT !.calls[t].pc = "stamp"]
    /\ UNCHANGED <<news_sources, posts, posting_logs, now, run, session, budget, sweep, rss,
                   classified, health, limiter, handled, page>>

\* line 527 in thread t, and the return
rate_limit_stamp_in(t) ==
    /\ threads.calls[t].pc = "stamp"
    /\ limiter' = [limiter EXCEPT !.last_request_time = limiter.clock]
    /\ threads' = [threads EXCEPT
           !.calls[t].pc = "out",
           !.returns = LET r == [at |-> limiter.clock, thread |-> t]
                       IN  IF @ = << >> THEN <<r>> ELSE <<@[Len(@)], r>>]
    /\ UNCHANGED <<news_sources, posts, posting_logs, now, run, session, budget, sweep, rss,
                   classified, health, handled, page>>

\* a second passes
ElapseThreads ==
    /\ limiter.clock < MaxClock
    /\ \A t \in Threads :
           threads.calls[t].pc = "asleep" =>
               limiter.clock < threads.calls[t].wake + MaxOversleep
    /\ limiter' = [limiter EXCEPT !.clock = @ + 1]
    /\ UNCHANGED <<news_sources, posts, posting_logs, now, run, session, budget, sweep, rss,
                   classified, health, handled, page, threads>>

InitThreads ==
    /\ InitTables
    /\ posting_logs = EmptyBag
    /\ budget = [ticks |-> 0, runs |-> 0, toggles |-> 0, sweeps |-> 0]

NextThreads ==
    \/ \E t \in Threads : rate_limit_enter_in(t)
    \/ \E t \in Threads : rate_limit_sleep_in(t)
    \/ \E t \in Threads : rate_limit_wake_in(t)
    \/ \E t \in Threads : rate_limit_stamp_in(t)
    \/ ElapseThreads

SpecThreads == InitThreads /\ [][NextThreads]_vars

\* C37: with two threads calling _rate_limit on the one fetcher, any two
\* returns that follow each other, of the same thread or of different
\* threads, are at least min_delay_between_requests apart, however the reads
\* of last_request_time, the sleeps and the writes interleave.
C37_ThreadsReturnApart ==
    Len(threads.returns) = 2 =>
        threads.returns[2].at - threads.returns[1].at >= min_delay_between_requests

====
